---- MODULE Spec2Model ----
(***************************************************************************)
(* A model of the MS Access -> MySQL converters of this repository:        *)
(* name sanitisation, the production-safe open of a source database, the   *)
(* per-database pipeline (size estimates, ordering, sync decision, export  *)
(* fallback chain, load), the null round trip, the batched loaders and     *)
(* the interrupt handling of the COM converter.                            *)
(*                                                                         *)
(* Each part has its own specification over the same variables; the parts  *)
(* a specification does not exercise stay at their idle values.            *)
(***************************************************************************)
EXTENDS Integers, Sequences, FiniteSets, TLC

VARIABLES
    \* ---- sanitize_name (pure function, three copies in the repository)
    sn_variant,     \* which converter's copy is applied: "com" | "odbc" | "csv"
    sn_name,        \* the input string, a sequence of characters
    sn_result,      \* NoResult, or [exc, val]: the exception raised or the value returned
    \* ---- safe_open_database / is_database_in_use (AccessCOMConverter)
    so_pc,          \* position in safe_open_database
    so_lock_ldb,    \* the .ldb sibling: whether it exists and its age in seconds
    so_lock_laccdb, \* the .laccdb sibling
    so_file_locked, \* outcome of the probe open(db_path, 'r+b')
    access_app,     \* "running" | "none": self.access_app
    db_open,        \* the database open in the Access session: "none" | "prev" | "target"
    so_attempt,     \* the loop variable `attempt`
    so_open_log,    \* outcomes of the OpenCurrentDatabase calls made, in order
    so_close_calls, \* number of safe_close_database calls made by this call
    so_restarts,    \* outcomes of the start_access calls made by this call
    so_slept,       \* half-seconds slept since the last OpenCurrentDatabase call
    so_waits,       \* half-seconds slept before each OpenCurrentDatabase call, in order
    so_result,      \* return value of safe_open_database: "none" | "true" | "false"
    \* ---- convert_database / _process_single_table (AccessCOMConverter), one database
    pl_pc,            \* position: "idle" | "estimate" | "next" | "started" | "exported" | "done"
    src_rows,         \* source table name -> number of rows in the Access table
    tgt,              \* MySQL: target table name -> [exists, rows]
    tgt_initial,      \* the value of tgt when the run started
    table_sizes,      \* stats_tracker.table_sizes: the dict's items in insertion order
    pl_order,         \* small_tables followed by large_tables
    pl_idx,           \* index in pl_order of the table being processed (or the next one)
    table_progress,   \* stats_tracker.table_progress: name -> [status, estimated_rows, final_rows]
    processing_order, \* stats_tracker.processing_order
    pl_action,        \* the decision of should_update_table for the current table
    pl_csv,           \* the staged export of the current table: [strategy, rows]
    pl_fault,         \* a count, an export strategy or a load has failed in this run
    \* ---- one text column on its way from Access to MySQL (both converters)
    nl_pc,          \* position: "idle" | "source" | "csv" | "frame" | "clean" | "typed" | "stored"
    nl_path,        \* "com": export to CSV, then import_csv_to_mysql; "odbc": migrate_table_data
    nl_pad,         \* Series.replace(x, None) fills from the row above (older pandas) or puts None
    nl_source,      \* the cells of the column in the Access table
    nl_csv,         \* the fields of the column in the staged CSV file
    nl_df,          \* the column of the DataFrame
    nl_stored,      \* the cells of the column in the MySQL table
    \* ---- the batched insert loops of the two loaders
    ld_pc,          \* position: "idle" | "loop" | "returned"
    ld_variant,     \* "com": import_csv_to_mysql; "odbc": migrate_table_data
    ld_total,       \* total_rows = len(df)
    ld_bad,         \* batch number -> how many of its rows the server rejects
    ld_batch,       \* number of the batch the loop is at (1-based)
    ld_attempted,   \* numbers of the batches whose executemany was called, in order
    ld_committed,   \* rows committed to the target table
    ld_retried,     \* numbers of the batches that were retried row by row
    ld_result,      \* the value returned, -1 before the return
    \* ---- run_conversion under an operator interrupt (main thread, display thread)
    sg_pc,          \* the statement of run_conversion the main thread is at, or "exited"
    sg_hold,        \* the main thread is inside a tracker method, holding the lock
    sg_exiting,     \* SystemExit is propagating through run_conversion
    sg_handler,     \* the statement of signal_handler being run on the main thread, or "none"
    sg_signals,     \* number of signals delivered
    sg_lock,        \* owner of stats_tracker.lock: "free" | "main" | "handler" | "display"
    sg_display,     \* the display thread: "notstarted" | "waiting" | "acquire" | "body" | "stopped"
    sg_stop_event,  \* progress_thread.stop_event is set
    sg_access,      \* "none" | "running": the Access session
    sg_db_open,     \* a source database is open in the Access session
    sg_report,      \* save_final_report has written the report
    \* ---- who touches the tracker's shared state while the display thread is alive
    ac_pc,          \* the tracker access the pipeline thread is at, within one table
    ac_table,       \* index of the table being processed
    ac_hold,        \* the pipeline thread is inside a tracker method, holding the lock
    ac_lock,        \* owner of stats_tracker.lock: "free" | "main" | "display"
    ac_display,     \* the display thread: "waiting" | "acquire" | "body"
    ac_log,         \* the accesses made so far: [site, thread, fields, locked]
    \* ---- run_conversion and main over the discovered databases (AccessCOMConverter)
    rn_pc,          \* "idle" | "start" | "prescan" | "convert" | "finally" | "summary" | "exited"
    rn_dbs,         \* the databases found, in discovery order: [lock, tables]
    rn_i,           \* index of the database the current loop is at
    rn_access,      \* self.access_app: "none" | "running"
    rn_started,     \* the first start_access of the run succeeded
    rn_open,        \* index of the database open in the Access session, 0 for none
    rn_open_calls,  \* the OpenCurrentDatabase calls made: [by, db, open_before]
    rn_attempted,   \* indexes of the databases handed to convert_database, in order
    rn_status,      \* database index -> "none" | "converted" | "failed"
    rn_migrated,    \* database index -> number of its tables loaded into the target
    rn_last,        \* the last database converted: [db, faults, statuses] of its tables
    rn_stats,       \* stats_tracker.stats: the counters main reads
    rn_report,      \* save_final_report has written the report
    rn_exit,        \* the exit code of the process, -1 while it runs
    \* ---- loading the tables of one source database into one target database, run after run
    tg_pc,          \* "idle" | "load" | "done"
    tg_variant,     \* "com" | "odbc" | "legacy"
    tg_tables,      \* the source tables in processing order: [name, rows]
    tg_run,         \* number of the current run over the unchanged source
    tg_idx,         \* index of the next source table of the current run
    tg_target,      \* target table name -> [exists, rows, owners]
    tg_status,      \* run -> table index -> "none" | "ok" | "failed"
    tg_reported,    \* [run, table] pairs for which an error was logged
    tg_first,       \* tg_target as the first run left it
    \* ---- ConversionStatistics driven by the calls the converter makes
    tk_pc,          \* "idle" | "tracking" | "reported"
    tk_stats,       \* self.stats: the counters and the current database and table
    tk_progress,    \* self.table_progress: table name -> record, keyed by table name only
    tk_order,       \* self.processing_order
    tk_db,          \* index of the database being converted, 0 before the first
    tk_db_outcome,  \* database index -> "none" | "processed" | "failed"
    tk_unit,        \* database index -> table name -> status of its complete_table call
    tk_ops,         \* number of tracker calls made
    tk_ncalls,      \* number of complete_table calls made
    tk_op,          \* the last tracker call: [op, name, rows, status]
    tk_prev,        \* [stats, progress] as they were before the last tracker call
    tk_report,      \* the report written by save_final_report
    \* ---- type inference on a CSV sample (analyze_csv_structure, infer_mysql_type)
    an_pc,          \* "idle" | "ready"
    an_variant,     \* "com" | "csv"
    an_sample,      \* the sample as read_csv returns it: a sequence of columns [name, cells]
    an_state,       \* converter, tracker and target state: [tables_processed, target_created]
    an_runs,        \* the type maps returned by the inference runs made so far, in order
    an_last,        \* the last step: "none" | "infer" | "import"
    an_before,      \* an_state as it was before the last step
    \* ---- ProgressDisplayThread beside the main thread's tracker calls
    dp_pc,          \* display thread: "idle" | "waiting" | "calling" | "printing" | "terminated"
    dp_stop,        \* stop_event is set
    dp_lock,        \* the tracker lock: "free" | "main" | "display"
    dp_main,        \* number of tracker calls the main thread has completed
    dp_stats,       \* the tracker state, as a version number raised by every change
    dp_calls,       \* display_progress calls the thread has started
    dp_calls_at_stop, \* dp_calls when stop() was called, -1 before
    dp_last,        \* the thread that released the lock last: "none" | "main" | "display"
    dp_before,      \* dp_stats when that thread acquired the lock
    \* ---- safe_close_database and close_access called again and again
    sc_pc,          \* the caller: "idle" | "running" | "crashed"
    sc_app,         \* self.access_app: "running" | "none"
    sc_db,          \* the database open in the Access session: "none" | "open"
    sc_log,         \* the calls made: [op, app_before, db_before, ok, app_after, db_after]
    \* ---- export_table_to_csv, strategy by strategy
    ex_pc,          \* "idle" | "trying" | "returned"
    ex_id_field,    \* the table has a field whose name holds ID, KEY or NUM
    ex_file,        \* csv_file: [nonempty, writer]
    ex_idx,         \* index in ExportOrder of the strategy to try next
    ex_log,         \* the strategies run and what the driver did: [strategy, outcome]
    ex_result,      \* "pending" | "file" | "none"
    ex_rows,        \* rows the source table holds
    ex_exported,    \* data rows the last strategy wrote to csv_file
    ex_warned,      \* a truncation warning was logged for the table
    \* ---- the temporary export directory of a database, in the three staged variants
    st_pc,          \* "idle" | "start" | "staging" | "ended" | "interrupted"
    st_variant,     \* "com_pipeline" | "legacy_com" | "legacy_mdb"
    st_db,          \* index of the database being converted
    st_left,        \* tables of the database still to be exported
    st_dir,         \* the database's temp directory: [exists, files]
    st_end,         \* how the last database ended: "none" | "success" | "failure" | "interrupt"
    st_leaked,      \* temp directories left behind by databases whose processing has ended
    \* ---- get_table_list, strategy by strategy (both converters)
    gl_pc,          \* "idle" | "trying" | "returned"
    gl_variant,     \* "com": AccessCOMConverter; "odbc": AccessToMySQLConverter
    gl_idx,         \* number of the enumeration strategy to try next
    gl_tables,      \* the local list `tables`
    gl_log,         \* the strategies run: [strategy, names, outcome]
    gl_result,      \* the list returned
    \* ---- the row-cursor export loop of export_table_to_csv
    cu_pc,          \* "idle" | "loop" | "done" | "raised"
    cu_rows,        \* rows the recordset holds
    cu_row_count,   \* row_count: rows read from the cursor and written to the file
    cu_prev,        \* row_count before the last chunk
    cu_chunk,       \* the last chunk written: [first, last] row numbers in cursor order
    cu_chunks,      \* number of chunks written
    cu_processed,   \* table_progress[table]['processed_rows'] in the tracker
    \* ---- the identifier-range batched export of export_table_to_csv
    ir_pc,          \* "idle" | "loop" | "done"
    ir_table,       \* the key column of the table's rows, in the order of ORDER BY
    ir_offset,      \* offset: the last key of the batch before
    ir_written,     \* the rows written to the file, as indexes into ir_table, in order
    ir_batches,     \* number of batch queries run
    ir_result,      \* "pending" | "file": csv_file returned | "none": the strategy fell through
    \* ---- get_table_size_estimates, table by table
    es_pc,          \* "idle" | "loop" | "returned"
    es_tables,      \* the list of table names given
    es_idx,         \* index in es_tables of the table to count next
    es_sizes,       \* table_sizes: the dict's items in insertion order
    es_log,         \* what each count did: [name, outcome, count]
    \* ---- _process_single_table for the tables of one database, call by call
    pt_pc,          \* "idle" | "next" | "started" | "decided" | "exported" | "done" | "interrupted"
    pt_order,       \* the tables of the database in processing order
    pt_idx,         \* index in pt_order of the table being processed (or the next one)
    pt_action,      \* the decision of should_update_table for the current table
    pt_stats,       \* the tracker's counters
    pt_progress,    \* the tracker's table_progress
    pt_log,         \* the start_table and complete_table calls made: [op, name, status]
    \* ---- run_conversion from its first statement to its return or raise
    rc_pc,          \* "idle" | "start" | "discover" | "convert" | "finally" | "returned" | "raised"
    rc_found,       \* number of databases find_access_databases returned
    rc_paths,       \* per database converted so far, the path convert_database took
    rc_counted,     \* per database converted so far, the complete_database calls made for it
    rc_stats,       \* [databases_processed, databases_failed]
    rc_access_app,  \* self.access_app: "none" | "app"
    rc_session,     \* the Access process: "none" | "running" | "quit"
    rc_thread,      \* the display thread: "none" | "running" | "stopped"
    rc_exit,        \* the exit path taken: "none" | "no_access" | "no_databases" | "all" | "exception"
    rc_log          \* the calls made by the finally clause, in order

sanVars  == <<sn_variant, sn_name, sn_result>>
openVars == <<so_pc, so_lock_ldb, so_lock_laccdb, so_file_locked, access_app, db_open,
              so_attempt, so_open_log, so_close_calls, so_restarts, so_slept, so_waits,
              so_result>>
pipeVars == <<pl_pc, src_rows, tgt, tgt_initial, table_sizes, pl_order, pl_idx,
              table_progress, processing_order, pl_action, pl_csv, pl_fault>>
nullVars == <<nl_pc, nl_path, nl_pad, nl_source, nl_csv, nl_df, nl_stored>>
loadVars == <<ld_pc, ld_variant, ld_total, ld_bad, ld_batch, ld_attempted, ld_committed,
              ld_retried, ld_result>>
sigVars == <<sg_pc, sg_hold, sg_exiting, sg_handler, sg_signals, sg_lock, sg_display,
             sg_stop_event, sg_access, sg_db_open, sg_report>>
accessVars == <<ac_pc, ac_table, ac_hold, ac_lock, ac_display, ac_log>>
runVars == <<rn_pc, rn_dbs, rn_i, rn_access, rn_started, rn_open, rn_open_calls,
             rn_attempted, rn_status, rn_migrated, rn_last, rn_stats, rn_report, rn_exit>>
targetVars == <<tg_pc, tg_variant, tg_tables, tg_run, tg_idx, tg_target, tg_status,
                tg_reported, tg_first>>
trackerVars == <<tk_pc, tk_stats, tk_progress, tk_order, tk_db, tk_db_outcome, tk_unit,
                 tk_ops, tk_ncalls, tk_op, tk_prev, tk_report>>
analyzeVars == <<an_pc, an_variant, an_sample, an_state, an_runs, an_last, an_before>>
displayVars == <<dp_pc, dp_stop, dp_lock, dp_main, dp_stats, dp_calls, dp_calls_at_stop,
                 dp_last, dp_before>>
closeVars == <<sc_pc, sc_app, sc_db, sc_log>>
exportVars == <<ex_pc, ex_id_field, ex_file, ex_idx, ex_log, ex_result, ex_rows, ex_exported,
               ex_warned>>
stagingVars == <<st_pc, st_variant, st_db, st_left, st_dir, st_end, st_leaked>>
listVars == <<gl_pc, gl_variant, gl_idx, gl_tables, gl_log, gl_result>>
cursorVars == <<cu_pc, cu_rows, cu_row_count, cu_prev, cu_chunk, cu_chunks,
                cu_processed>>
idRangeVars == <<ir_pc, ir_table, ir_offset, ir_written, ir_batches, ir_result>>
estimateVars == <<es_pc, es_tables, es_idx, es_sizes, es_log>>
tableVars == <<pt_pc, pt_order, pt_idx, pt_action, pt_stats, pt_progress, pt_log>>
finishVars == <<rc_pc, rc_found, rc_paths, rc_counted, rc_stats, rc_access_app,
                rc_session, rc_thread, rc_exit, rc_log>>
vars == <<sanVars, openVars, pipeVars, nullVars, loadVars, sigVars, accessVars, runVars,
          targetVars, trackerVars, analyzeVars, displayVars, closeVars, exportVars,
          stagingVars, listVars, cursorVars, idRangeVars, estimateVars, tableVars,
          finishVars>>

\* What the actions of one part leave alone
notSan  == <<openVars, pipeVars, nullVars, loadVars, sigVars, accessVars, runVars,
             targetVars, trackerVars, analyzeVars, displayVars, closeVars, exportVars,
             stagingVars, listVars, cursorVars, idRangeVars, estimateVars, tableVars,
             finishVars>>
notOpen == <<sanVars, pipeVars, nullVars, loadVars, sigVars, accessVars, runVars,
             targetVars, trackerVars, analyzeVars, displayVars, closeVars, exportVars,
             stagingVars, listVars, cursorVars, idRangeVars, estimateVars, tableVars,
             finishVars>>
notPipe == <<sanVars, openVars, nullVars, loadVars, sigVars, accessVars, runVars,
             targetVars, trackerVars, analyzeVars, displayVars, closeVars, exportVars,
             stagingVars, listVars, cursorVars, idRangeVars, estimateVars, tableVars,
             finishVars>>
notNull == <<sanVars, openVars, pipeVars, loadVars, sigVars, accessVars, runVars,
             targetVars, trackerVars, analyzeVars, displayVars, closeVars, exportVars,
             stagingVars, listVars, cursorVars, idRangeVars, estimateVars, tableVars,
             finishVars>>
notLoad == <<sanVars, openVars, pipeVars, nullVars, sigVars, accessVars, runVars,
             targetVars, trackerVars, analyzeVars, displayVars, closeVars, exportVars,
             stagingVars, listVars, cursorVars, idRangeVars, estimateVars, tableVars,
             finishVars>>
notSig  == <<sanVars, openVars, pipeVars, nullVars, loadVars, accessVars, runVars,
             targetVars, trackerVars, analyzeVars, displayVars, closeVars, exportVars,
             stagingVars, listVars, cursorVars, idRangeVars, estimateVars, tableVars,
             finishVars>>
notAccess == <<sanVars, openVars, pipeVars, nullVars, loadVars, sigVars, runVars,
               targetVars, trackerVars, analyzeVars, displayVars, closeVars, exportVars,
               stagingVars, listVars, cursorVars, idRangeVars, estimateVars, tableVars,
               finishVars>>
notRun == <<sanVars, openVars, pipeVars, nullVars, loadVars, sigVars, accessVars,
            targetVars, trackerVars, analyzeVars, displayVars, closeVars, exportVars,
            stagingVars, listVars, cursorVars, idRangeVars, estimateVars, tableVars,
            finishVars>>
notTarget == <<sanVars, openVars, pipeVars, nullVars, loadVars, sigVars, accessVars,
               runVars, trackerVars, analyzeVars, displayVars, closeVars, exportVars,
               stagingVars, listVars, cursorVars, idRangeVars, estimateVars, tableVars,
               finishVars>>
notTracker == <<sanVars, openVars, pipeVars, nullVars, loadVars, sigVars, accessVars,
                runVars, targetVars, analyzeVars, displayVars, closeVars, exportVars,
                stagingVars, listVars, cursorVars, idRangeVars, estimateVars, tableVars,
                finishVars>>
notAnalyze == <<sanVars, openVars, pipeVars, nullVars, loadVars, sigVars, accessVars,
                runVars, targetVars, trackerVars, displayVars, closeVars, exportVars,
                stagingVars, listVars, cursorVars, idRangeVars, estimateVars, tableVars,
                finishVars>>
notDisplay == <<sanVars, openVars, pipeVars, nullVars, loadVars, sigVars, accessVars,
                runVars, targetVars, trackerVars, analyzeVars, closeVars, exportVars,
                stagingVars, listVars, cursorVars, idRangeVars, estimateVars, tableVars,
                finishVars>>
notClose == <<sanVars, openVars, pipeVars, nullVars, loadVars, sigVars, accessVars,
              runVars, targetVars, trackerVars, analyzeVars, displayVars, exportVars,
              stagingVars, listVars, cursorVars, idRangeVars, estimateVars, tableVars,
              finishVars>>
notExport == <<sanVars, openVars, pipeVars, nullVars, loadVars, sigVars, accessVars,
               runVars, targetVars, trackerVars, analyzeVars, displayVars, closeVars,
               stagingVars, listVars, cursorVars, idRangeVars, estimateVars, tableVars,
               finishVars>>
notStaging == <<sanVars, openVars, pipeVars, nullVars, loadVars, sigVars, accessVars,
                runVars, targetVars, trackerVars, analyzeVars, displayVars, closeVars,
                exportVars, listVars, cursorVars, idRangeVars, estimateVars, tableVars,
                finishVars>>
notList == <<sanVars, openVars, pipeVars, nullVars, loadVars, sigVars, accessVars,
             runVars, targetVars, trackerVars, analyzeVars, displayVars, closeVars,
             exportVars, stagingVars, cursorVars, idRangeVars, estimateVars, tableVars,
             finishVars>>
notCursor == <<sanVars, openVars, pipeVars, nullVars, loadVars, sigVars, accessVars,
               runVars, targetVars, trackerVars, analyzeVars, displayVars, closeVars,
               exportVars, stagingVars, listVars, idRangeVars, estimateVars, tableVars,
               finishVars>>
notIdRange == <<sanVars, openVars, pipeVars, nullVars, loadVars, sigVars, accessVars,
                runVars, targetVars, trackerVars, analyzeVars, displayVars, closeVars,
                exportVars, stagingVars, listVars, cursorVars, estimateVars, tableVars,
                finishVars>>
notEstimate == <<sanVars, openVars, pipeVars, nullVars, loadVars, sigVars, accessVars,
                 runVars, targetVars, trackerVars, analyzeVars, displayVars, closeVars,
                 exportVars, stagingVars, listVars, cursorVars, idRangeVars, tableVars,
                 finishVars>>
notTable == <<sanVars, openVars, pipeVars, nullVars, loadVars, sigVars, accessVars,
              runVars, targetVars, trackerVars, analyzeVars, displayVars, closeVars,
              exportVars, stagingVars, listVars, cursorVars, idRangeVars, estimateVars,
              finishVars>>
notFinish == <<sanVars, openVars, pipeVars, nullVars, loadVars, sigVars, accessVars,
               runVars, targetVars, trackerVars, analyzeVars, displayVars, closeVars,
               exportVars, stagingVars, listVars, cursorVars, idRangeVars, estimateVars,
               tableVars>>

-----------------------------------------------------------------------------
(* Generic helpers *)

Min(a, b) == IF a < b THEN a ELSE b

RECURSIVE Rep(_, _)
Rep(c, n) == IF n <= 0 THEN <<>> ELSE <<c>> \o Rep(c, n - 1)

RECURSIVE FlatMap(_, _)
FlatMap(F(_), s) == IF s = <<>> THEN <<>> ELSE F(Head(s)) \o FlatMap(F, Tail(s))

Take(s, n) == SubSeq(s, 1, Min(Len(s), n))

SeqsUpTo(S, n) == UNION {[1..k -> S] : k \in 0..n}

-----------------------------------------------------------------------------
(***************************************************************************)
(* sanitize_name.  Characters are tokens; each stands for a class of       *)
(* Python str characters:                                                  *)
(*   "a" ASCII lower-case letter   "Z" ASCII upper-case letter             *)
(*   "7" ASCII digit               "_" underscore                          *)
(*   " " a character outside \w    "e_acute" non-ASCII letter (é)          *)
(*   "sup2" non-ASCII digit (²: isdigit() and \w both true)                *)
(*   "I_dot" İ (U+0130), whose lower() is the two characters i + U+0307    *)
(***************************************************************************)
Alphabet == {"a", "Z", "7", "_", " ", "e_acute", "sup2", "I_dot"}

\* re: \w on a str pattern is Unicode-aware: [a-zA-Z0-9_] plus every alphanumeric character
IsWordChar(c) == c \in {"a", "Z", "7", "_", "e_acute", "sup2", "I_dot", "z", "d", "b", "i"}

\* str.isdigit()
isdigit(c) == c \in {"7", "sup2"}

\* str.lower() of one character
lower(c) == CASE c = "Z" -> <<"z">>
              [] c = "I_dot" -> <<"i", "comb_dot">>
              [] OTHER -> <<c>>

\* re.sub(r'[^\w]', '_', name)
re_sub_nonword(name) == [i \in 1..Len(name) |-> IF IsWordChar(name[i]) THEN name[i] ELSE "_"]

NAME_MAX == 64

Returned(v) == [exc |-> "none", val |-> v]
Raised(e) == [exc |-> e, val |-> <<>>]
NoResult == [exc |-> "pending", val |-> <<>>]

\* AccessCOMConverter.sanitize_name: sanitized[0] on the empty string raises IndexError
sanitize_name(name) ==
    LET sanitized == re_sub_nonword(name) IN
    IF Len(sanitized) = 0 THEN Raised("IndexError")
    ELSE LET s2 == IF isdigit(sanitized[1]) THEN <<"d", "b", "_">> \o sanitized ELSE sanitized
         IN Returned(Take(FlatMap(lower, s2), NAME_MAX))

\* AccessToMySQLConverter.sanitize_name: truncates first, lower-cases after
sanitize_name_odbc(name) ==
    LET sanitized == re_sub_nonword(name) IN
    IF Len(sanitized) = 0 THEN Raised("IndexError")
    ELSE LET s2 == IF isdigit(sanitized[1]) THEN <<"d", "b", "_">> \o sanitized ELSE sanitized
         IN Returned(FlatMap(lower, Take(s2, NAME_MAX)))

\* CSVToMySQLConverter.sanitize_name: the same text as the COM converter's
sanitize_name_csv(name) == sanitize_name(name)

\* Inputs: a short prefix over the alphabet followed by a run of "a" of one of PadLens
MaxPrefixLen == 2
PadLens == {0, 61, 63, 64}
SanInputs == {p \o Rep("a", k) : p \in SeqsUpTo(Alphabet, MaxPrefixLen), k \in PadLens}

\* "Test Table Name!", the name the integration test sanitizes, and the result it expects,
\* "Test_Table_Name", in character classes
TestTableName ==
    <<"Z", "a", "a", "a", " ", "Z", "a", "a", "a", "a", " ", "Z", "a", "a", "a", " ">>
ExpectedTestName ==
    <<"Z", "a", "a", "a", "_", "Z", "a", "a", "a", "a", "_", "Z", "a", "a", "a">>

InitSanitize ==
    /\ sn_variant \in {"com", "odbc", "csv"}
    /\ sn_name \in SanInputs \cup {TestTableName}
    /\ sn_result = NoResult

IdleSanitize ==
    /\ sn_variant = "com"
    /\ sn_name = <<>>
    /\ sn_result = NoResult

SanitizeCom ==
    /\ sn_variant = "com" /\ sn_result = NoResult
    /\ sn_result' = sanitize_name(sn_name)
    /\ UNCHANGED <<sn_variant, sn_name, notSan>>

SanitizeOdbc ==
    /\ sn_variant = "odbc" /\ sn_result = NoResult
    /\ sn_result' = sanitize_name_odbc(sn_name)
    /\ UNCHANGED <<sn_variant, sn_name, notSan>>

SanitizeCsv ==
    /\ sn_variant = "csv" /\ sn_result = NoResult
    /\ sn_result' = sanitize_name_csv(sn_name)
    /\ UNCHANGED <<sn_variant, sn_name, notSan>>

NextSanitize == SanitizeCom \/ SanitizeOdbc \/ SanitizeCsv

\* The characters of [a-z0-9_] among the tokens, and the ASCII digits among them
NameChars == {"a", "z", "d", "b", "i", "7", "_"}
AsciiDigits == {"7"}

MatchesTargetName(v) ==
    /\ Len(v) >= 1 /\ Len(v) <= NAME_MAX
    /\ \A i \in 1..Len(v) : v[i] \in NameChars
    /\ v[1] \notin AsciiDigits

\* C1: for every input string, sanitize_name returns a string that matches
\* [a-z0-9_]{1,64} and does not start with a digit (in each of the three copies).
C1_SanitizedNameContract ==
    sn_result # NoResult => (sn_result.exc = "none" /\ MatchesTargetName(sn_result.val))

\* C19: sanitize_name of the COM converter, applied to the test's name "Test Table Name!",
\* returns the words joined by single underscores, case preserved, no trailing underscore
C19_TestNameSanitized ==
    (sn_variant = "com" /\ sn_name = TestTableName /\ sn_result # NoResult) =>
        sn_result = Returned(ExpectedTestName)

-----------------------------------------------------------------------------
(***************************************************************************)
(* safe_open_database (AccessCOMConverter).  The driver's answer to each   *)
(* OpenCurrentDatabase call, the outcome of each CloseCurrentDatabase,     *)
(* Quit and Dispatch call are inputs chosen at the call.                   *)
(***************************************************************************)
LOCK_FRESH_SECONDS == 600
max_retries == 3

NoLockFile == [exists |-> FALSE, age |-> 0]
LockAges == {599, 600}
LockFiles == {NoLockFile} \cup {[exists |-> TRUE, age |-> a] : a \in LockAges}
ProbeOutcomes == {"ok", "PermissionError", "OSError"}

\* file_age < 600 for a lock file that exists
IsFresh(f) == f.exists /\ f.age < LOCK_FRESH_SECONDS

\* A plausible slip: only the first extension of lock_extensions is looked at
is_database_in_use_ldb_only(ldb, laccdb, probe) ==
    IF IsFresh(ldb) THEN TRUE ELSE probe = "PermissionError"

\* is_database_in_use: a recent .ldb or .laccdb sibling, else the exclusive-open probe;
\* any other exception of the probe is swallowed and answers False
is_database_in_use(ldb, laccdb, probe) ==
    IF IsFresh(ldb) THEN TRUE
    ELSE IF IsFresh(laccdb) THEN TRUE
    ELSE probe = "PermissionError"

\* "already" in error_msg or "open" in error_msg or "lock" in error_msg.
\* "noapp" is the AttributeError of None.OpenCurrentDatabase, whose text holds "open".
IsLockError(o) == o \in {"lock", "noapp"}

\* A plausible slip: gives up one attempt early
ShouldRetry_early(attempt) == attempt < max_retries - 2

\* if attempt < max_retries - 1
ShouldRetry(attempt) == attempt < max_retries - 1

\* A plausible slip: Access is restarted before every retry
ShouldRestart_always(attempt) == attempt <= max_retries - 2

\* if attempt == max_retries - 2
ShouldRestart(attempt) == attempt = max_retries - 2

\* the sleeps, in half-seconds: time.sleep(2 + attempt) before the open call,
\* time.sleep(5 + attempt * 3) before a retry, and for the restart the 0.5 s of
\* close_access (when there is an application object) and time.sleep(5)
sleep_before_open(attempt) == 2 * (2 + attempt)
sleep_before_retry(attempt) == 2 * (5 + attempt * 3)
sleep_restart(app) == (IF app = "none" THEN 0 ELSE 1) + 2 * 5

\* safe_close_database: CloseCurrentDatabase if there is an application object;
\* a fault of the close is swallowed and leaves the session as it was
AfterSafeClose(app, db, closeOk) ==
    IF app = "none" THEN db ELSE IF closeOk THEN "none" ELSE db

InitOpen ==
    /\ so_pc = "call"
    /\ so_lock_ldb \in LockFiles
    /\ so_lock_laccdb \in LockFiles
    /\ so_file_locked \in ProbeOutcomes
    /\ access_app \in {"running", "none"}
    /\ db_open \in (IF access_app = "running" THEN {"none", "prev"} ELSE {"none"})
    /\ so_attempt = 0
    /\ so_open_log = <<>>
    /\ so_close_calls = 0
    /\ so_restarts = <<>>
    /\ so_slept = 0
    /\ so_waits = <<>>
    /\ so_result = "none"

IdleOpen ==
    /\ so_pc = "idle"
    /\ so_lock_ldb = NoLockFile
    /\ so_lock_laccdb = NoLockFile
    /\ so_file_locked = "ok"
    /\ access_app = "none"
    /\ db_open = "none"
    /\ so_attempt = 0
    /\ so_open_log = <<>>
    /\ so_close_calls = 0
    /\ so_restarts = <<>>
    /\ so_slept = 0
    /\ so_waits = <<>>
    /\ so_result = "none"

\* lines 368-376: the production-safety check refuses before anything else is done
SafeOpenRefuse ==
    /\ so_pc = "call"
    /\ is_database_in_use(so_lock_ldb, so_lock_laccdb, so_file_locked)
    /\ so_pc' = "returned"
    /\ so_result' = "false"
    /\ UNCHANGED <<so_lock_ldb, so_lock_laccdb, so_file_locked, access_app, db_open,
                   so_attempt, so_open_log, so_close_calls, so_restarts, so_slept,
                   so_waits, notOpen>>

SafeOpenEnterLoop ==
    /\ so_pc = "call"
    /\ ~is_database_in_use(so_lock_ldb, so_lock_laccdb, so_file_locked)
    /\ so_pc' = "attempt"
    /\ UNCHANGED <<so_lock_ldb, so_lock_laccdb, so_file_locked, access_app, db_open,
                   so_attempt, so_open_log, so_close_calls, so_restarts, so_slept,
                   so_waits, so_result, notOpen>>

\* lines 381-432: one pass of the try body and the classification of its exception
SafeOpenAttempt ==
    /\ so_pc = "attempt"
    /\ \E closeOk \in BOOLEAN, answer \in {"ok", "lock", "other"} :
         LET db1 == AfterSafeClose(access_app, db_open, closeOk)
             o == IF access_app = "none" THEN "noapp" ELSE answer
         IN /\ so_close_calls' = so_close_calls + 1
            /\ so_waits' = Append(so_waits, so_slept + sleep_before_open(so_attempt))
            /\ so_slept' = 0
            /\ so_open_log' = Append(so_open_log, o)
            /\ IF o = "ok"
               THEN /\ db_open' = "target"
                    /\ so_result' = "true"
                    /\ so_pc' = "returned"
               ELSE /\ db_open' = db1
                    /\ IF IsLockError(o) /\ ShouldRetry(so_attempt)
                       THEN /\ so_pc' = "retry"
                            /\ so_result' = so_result
                       ELSE /\ so_pc' = "returned"
                            /\ so_result' = "false"
    /\ UNCHANGED <<so_lock_ldb, so_lock_laccdb, so_file_locked, access_app,
                   so_attempt, so_restarts, notOpen>>

\* lines 404-421: forced close, longer wait, restart of Access before the last attempt
SafeOpenRetryCleanup ==
    /\ so_pc = "retry"
    /\ \E closeOk \in BOOLEAN, closeOk2 \in BOOLEAN, startOk \in BOOLEAN :
         LET db1 == AfterSafeClose(access_app, db_open, closeOk) IN
         IF ShouldRestart(so_attempt)
         THEN \* close_access: safe_close_database, Quit, access_app = None; start_access
              /\ so_slept' = sleep_before_retry(so_attempt) + sleep_restart(access_app)
              /\ so_close_calls' = so_close_calls + (IF access_app = "none" THEN 1 ELSE 2)
              /\ db_open' = "none"
              /\ so_restarts' = Append(so_restarts, IF startOk THEN "ok" ELSE "fail")
              /\ IF startOk
                 THEN /\ access_app' = "running"
                      /\ so_pc' = "attempt"
                      /\ so_attempt' = so_attempt + 1
                      /\ so_result' = so_result
                 ELSE /\ access_app' = "none"
                      /\ so_pc' = "returned"
                      /\ so_attempt' = so_attempt
                      /\ so_result' = "false"
         ELSE /\ closeOk2 = TRUE /\ startOk = TRUE
              /\ so_slept' = sleep_before_retry(so_attempt)
              /\ so_close_calls' = so_close_calls + 1
              /\ db_open' = db1
              /\ so_pc' = "attempt"
              /\ so_attempt' = so_attempt + 1
              /\ UNCHANGED <<access_app, so_restarts, so_result>>
    /\ UNCHANGED <<so_lock_ldb, so_lock_laccdb, so_file_locked, so_open_log, so_waits, notOpen>>

NextOpen == SafeOpenRefuse \/ SafeOpenEnterLoop \/ SafeOpenAttempt \/ SafeOpenRetryCleanup

\* The driver answered "locked" to every open call made / to all but the last, which succeeded
AllLocked(log) == Len(log) >= 1 /\ \A i \in 1..Len(log) : log[i] = "lock"
LockedThenOpened(log) ==
    /\ Len(log) >= 1 /\ log[Len(log)] = "ok"
    /\ \A i \in 1..(Len(log) - 1) : log[i] = "lock"

\* C4 as claimed: a lock on the first k < 3 attempts and then a success ends in success
\* with the database open; a lock on every attempt ends in failure after exactly
\* max_retries attempts with no database open.
C4_OpenRetryOutcome ==
    so_pc = "returned" =>
        /\ LockedThenOpened(so_open_log) =>
              (so_result = "true" /\ db_open = "target" /\ Len(so_open_log) <= max_retries)
        /\ AllLocked(so_open_log) =>
              (so_result = "false" /\ db_open = "none" /\ Len(so_open_log) = max_retries)

\* C4 amended: as C4, but a lock on every attempt ends after exactly max_retries
\* attempts only when the restart of Access before the last attempt succeeds; when that
\* restart fails the call returns failure after max_retries - 1 attempts, nothing open.
C4_OpenRetryOutcomeAmended ==
    so_pc = "returned" =>
        /\ LockedThenOpened(so_open_log) =>
              (so_result = "true" /\ db_open = "target" /\ Len(so_open_log) <= max_retries)
        /\ AllLocked(so_open_log) =>
              /\ so_result = "false" /\ db_open = "none"
              /\ Len(so_open_log) =
                    (IF so_restarts = <<"fail">> THEN max_retries - 1 ELSE max_retries)

\* Two locked attempts, the restart, then a successful third attempt
C4_Witness ==
    /\ so_pc = "returned" /\ so_result = "true" /\ db_open = "target"
    /\ so_open_log = <<"lock", "lock", "ok">>

\* C22: at most max_retries open calls are made; an open call is followed by another only
\* when its error was classified as a lock error; the wait before each call is strictly
\* longer than before the one before it; Access is restarted at most once, only after two
\* failed calls, and always before a third call; an error of any other kind ends the call
\* with failure
C22_RetrySchedule ==
    /\ Len(so_open_log) <= max_retries
    /\ \A i \in 1..(Len(so_open_log) - 1) : IsLockError(so_open_log[i])
    /\ \A i \in 1..(Len(so_waits) - 1) : so_waits[i] < so_waits[i + 1]
    /\ Len(so_restarts) <= 1
    /\ so_restarts # <<>> =>
          (Len(so_open_log) >= 2 /\ IsLockError(so_open_log[1]) /\ IsLockError(so_open_log[2]))
    /\ Len(so_open_log) = max_retries => so_restarts = <<"ok">>
    /\ (so_open_log # <<>> /\ so_open_log[Len(so_open_log)] = "other") =>
          (so_pc = "returned" /\ so_result = "false")

\* C22 witness: two locked open calls, the restart, and a third call that an error of
\* another kind ends with failure
C22_Witness ==
    /\ so_pc = "returned" /\ so_result = "false"
    /\ so_open_log = <<"lock", "lock", "other">>
    /\ so_restarts = <<"ok">>
    /\ Len(so_waits) = 3

FreshLockFile == IsFresh(so_lock_ldb) \/ IsFresh(so_lock_laccdb)

\* C5: with a lock file younger than 600 s, safe_open_database returns failure at once:
\* no OpenCurrentDatabase call, no close, no restart of Access, no attempt consumed.
C5_FreshLockRefuses ==
    [][FreshLockFile =>
         /\ so_pc' = "returned" /\ so_result' = "false"
         /\ UNCHANGED <<access_app, db_open, so_open_log, so_close_calls,
                        so_restarts, so_attempt>>]_vars

\* The call has returned for a database whose only fresh lock file is the .laccdb one
C5_Witness ==
    /\ so_pc = "returned" /\ so_result = "false"
    /\ IsFresh(so_lock_laccdb) /\ ~IsFresh(so_lock_ldb)
    /\ so_file_locked = "ok" /\ access_app = "running"

-----------------------------------------------------------------------------
(***************************************************************************)
(* convert_database and _process_single_table (AccessCOMConverter) for one *)
(* database whose tables have been enumerated.  Row counts are numbers;    *)
(* the answers of Access, pandas and MySQL are inputs chosen at the call.  *)
(***************************************************************************)
LARGE_TABLE_ROWS == 100000
FALLBACK_ESTIMATE == 1000
TIMEOUT_ESTIMATE == 1000000
TOP_LIMIT == 100000
max_rows == 500000
export_batch_size == 10000
import_batch_size == 1000

\* The tables of the database, in the order get_table_list returned them
NumTables == 2
TableNames == <<"Products", "Orders", "Users", "Items">>
Tables == SubSeq(TableNames, 1, NumTables)
TableSet == {Tables[i] : i \in 1..Len(Tables)}

\* sanitize_name of the table names above (lower-cased, nothing to substitute)
TargetName(t) == CASE t = "Products" -> "products"
                   [] t = "Orders" -> "orders"
                   [] t = "Users" -> "users"
                   [] t = "Items" -> "items"
TargetSet == {TargetName(t) : t \in TableSet}

RowChoices == {0, 50, 100001, 500001}
PriorTargetRows == 50
AbsentTable == [exists |-> FALSE, rows |-> 0]
NoCsv == [strategy |-> "none", rows |-> 0]
NotStarted == [status |-> "none", estimated_rows |-> 0, final_rows |-> 0]
TerminalStatus == {"completed", "updated", "skipped", "failed"}

\* The methods class AccessCOMConverter defines
ConverterMethods ==
    {"safe_close_database", "is_database_in_use", "safe_open_database", "setup_logging",
     "sanitize_name", "start_access", "close_access", "find_access_databases",
     "connect_to_mysql", "get_table_list", "get_table_size_estimates",
     "check_existing_table", "should_update_table", "export_table_to_csv",
     "analyze_csv_structure", "import_csv_to_mysql", "convert_database",
     "_process_single_table", "run_conversion", "get_summary_report"}

\* check_existing_table: the first statement of its try block calls
\* self.get_mysql_connection(); a method the class does not define raises AttributeError,
\* which the except clause answers with (False, 0)
check_existing_table(entry) ==
    IF "get_mysql_connection" \notin ConverterMethods
    THEN <<FALSE, 0>>
    ELSE IF ~entry.exists THEN <<FALSE, 0>> ELSE <<TRUE, entry.rows>>

\* should_update_table
should_update_table(entry, access_row_count) ==
    LET res == check_existing_table(entry)
        exists == res[1]
        mysql_row_count == res[2]
    IN IF ~exists THEN "create"
       ELSE IF mysql_row_count = access_row_count THEN "skip"
       ELSE IF mysql_row_count < access_row_count THEN "update"
       ELSE "update"

\* sorted(items, key=lambda x: x[1]): a stable sort, smallest size first
RECURSIVE InsertBySize(_, _)
InsertBySize(x, s) ==
    IF s = <<>> THEN <<x>>
    ELSE IF x.size < Head(s).size THEN <<x>> \o s
    ELSE <<Head(s)>> \o InsertBySize(x, Tail(s))

RECURSIVE SortFrom(_, _)
SortFrom(items, acc) ==
    IF items = <<>> THEN acc ELSE SortFrom(Tail(items), InsertBySize(Head(items), acc))

\* A plausible slip: the items are left in the order of the dict
sorted_by_size_unsorted(items) == items

sorted_by_size(items) == SortFrom(items, <<>>)

\* ConversionStatistics.get_sorted_tables
get_sorted_tables == sorted_by_size(table_sizes)

IsSmall(x) == x.size < LARGE_TABLE_ROWS
IsLarge(x) == x.size >= LARGE_TABLE_ROWS

\* Phase 4 to 6 of convert_database: the small tables are processed first, then the large
ProcessingList(sizes) ==
    LET sorted_tables == sorted_by_size(sizes)
    IN SelectSeq(sorted_tables, IsSmall) \o SelectSeq(sorted_tables, IsLarge)

\* get_table_size_estimates: the count, or a fallback when the count query raises
CountOutcomes == {"ok", "error", "timeout"}
Estimate(n, outcome) ==
    CASE outcome \in {"ok", "slow"} -> n
      [] outcome = "timeout" -> TIMEOUT_ESTIMATE
      [] OTHER -> FALLBACK_ESTIMATE

\* export_table_to_csv: the strategies in the order they are tried
Strategies == <<"bulk", "capped", "excel", "cursor", "idrange", "idrange_cut", "quoted">>
StrategySet == {Strategies[i] : i \in 1..Len(Strategies)}

\* A plausible slip: the cursor export stops at the ceiling of the capped projection
ExportedRows_low_ceiling(strategy, n) ==
    CASE strategy = "capped" -> Min(n, TOP_LIMIT)
      [] strategy = "cursor" -> Min(n, TOP_LIMIT)
      [] strategy = "idrange_cut" -> Min(n, export_batch_size)
      [] OTHER -> n

\* Data rows in the file the winning strategy leaves behind, for a table of n rows:
\* "capped" is SELECT TOP 100000, "cursor" stops at max_rows, "idrange_cut" is the
\* id-range export whose second batch raised (the loop breaks, the file is returned)
ExportedRows(strategy, n) ==
    CASE strategy = "capped" -> Min(n, TOP_LIMIT)
      [] strategy = "cursor" -> Min(n, max_rows)
      [] strategy = "idrange_cut" -> Min(n, export_batch_size)
      [] OTHER -> n

\* len(df) after pd.read_csv: one row per data line of the file (every exported row is
\* taken to be a line the parser keeps, that is, not a blank line)
RowsRead(csv) == csv.rows

\* Number of batches of the insert loop: range(0, total_rows, batch_size)
NumBatches(total, size) == (total + size - 1) \div size

\* The load succeeds, cannot connect, or its last executemany raises
LoadOutcomes == {"ok", "connect_fail", "batch_fail_last"}

\* Rows committed to the recreated table by import_csv_to_mysql: one commit per batch,
\* the first failing executemany raises out of the loop
CommittedRows(total, outcome) ==
    CASE outcome = "ok" -> total
      [] outcome = "batch_fail_last" -> (NumBatches(total, import_batch_size) - 1) * import_batch_size
      [] OTHER -> 0

\* The value import_csv_to_mysql returns
ImportReturn(total, outcome) == IF outcome = "ok" THEN total ELSE 0

CurrentItem == pl_order[pl_idx]

InitPipe ==
    /\ pl_pc = "estimate"
    /\ src_rows \in [TableSet -> RowChoices]
    /\ tgt \in {[x \in TargetSet |-> AbsentTable],
                [x \in TargetSet |-> [exists |-> TRUE, rows |-> PriorTargetRows]]}
    /\ tgt_initial = tgt
    /\ table_sizes = <<>>
    /\ pl_order = <<>>
    /\ pl_idx = 1
    /\ table_progress = [t \in TableSet |-> NotStarted]
    /\ processing_order = <<>>
    /\ pl_action = "none"
    /\ pl_csv = NoCsv
    /\ pl_fault = FALSE

IdlePipe ==
    /\ pl_pc = "idle"
    /\ src_rows = <<>>
    /\ tgt = <<>>
    /\ tgt_initial = <<>>
    /\ table_sizes = <<>>
    /\ pl_order = <<>>
    /\ pl_idx = 1
    /\ table_progress = <<>>
    /\ processing_order = <<>>
    /\ pl_action = "none"
    /\ pl_csv = NoCsv
    /\ pl_fault = FALSE

\* Phase 3 and 4: estimate every table, register the sizes, fix the processing order
AnalyzeSizes ==
    /\ pl_pc = "estimate"
    /\ \E outcome \in [TableSet -> CountOutcomes] :
         LET sizes == [i \in 1..Len(Tables) |->
                         [name |-> Tables[i],
                          size |-> Estimate(src_rows[Tables[i]], outcome[Tables[i]])]]
         IN /\ table_sizes' = sizes
            /\ pl_order' = ProcessingList(sizes)
            /\ pl_fault' = (\E t \in TableSet : outcome[t] # "ok")
    /\ pl_pc' = "next"
    /\ UNCHANGED <<src_rows, tgt, tgt_initial, pl_idx, table_progress, processing_order,
                   pl_action, pl_csv, notPipe>>

\* _process_single_table up to the decision: start_table, then should_update_table
StartTable ==
    /\ pl_pc = "next" /\ pl_idx <= Len(pl_order)
    /\ LET t == CurrentItem.name
           est == CurrentItem.size
       IN /\ processing_order' = IF \E i \in 1..Len(processing_order) : processing_order[i] = t
                                 THEN processing_order ELSE Append(processing_order, t)
          /\ table_progress' = [table_progress EXCEPT ![t] =
                                  [status |-> "processing", estimated_rows |-> est,
                                   final_rows |-> 0]]
          /\ pl_action' = should_update_table(tgt[TargetName(t)], est)
    /\ pl_csv' = NoCsv
    /\ pl_pc' = "started"
    /\ UNCHANGED <<src_rows, tgt, tgt_initial, table_sizes, pl_order, pl_idx, pl_fault,
                   notPipe>>

\* complete_table, as far as the per-table record goes
Completed(progress, t, rows, status) ==
    [progress EXCEPT ![t].status = status, ![t].final_rows = rows]

\* 'skip' completes the table as skipped; otherwise export_table_to_csv runs its chain
\* and either stages a file or fails the table
SkipOrExport ==
    /\ pl_pc = "started"
    /\ LET t == CurrentItem.name
           est == CurrentItem.size
           n == src_rows[t]
       IN IF pl_action = "skip"
          THEN /\ table_progress' = Completed(table_progress, t, est, "skipped")
               /\ pl_pc' = "next" /\ pl_idx' = pl_idx + 1
               /\ UNCHANGED <<pl_csv, pl_fault>>
          ELSE \E winner \in StrategySet \cup {"none"} :
                 /\ winner = "idrange_cut" => n > export_batch_size
                 /\ IF winner = "none"
                    THEN /\ table_progress' = Completed(table_progress, t, 0, "failed")
                         /\ pl_pc' = "next" /\ pl_idx' = pl_idx + 1
                         /\ pl_csv' = NoCsv
                    ELSE /\ pl_csv' = [strategy |-> winner, rows |-> ExportedRows(winner, n)]
                         /\ pl_pc' = "exported"
                         /\ UNCHANGED <<table_progress, pl_idx>>
                 /\ pl_fault' = (pl_fault \/ winner # "bulk")
    /\ UNCHANGED <<src_rows, tgt, tgt_initial, table_sizes, pl_order, processing_order,
                   pl_action, notPipe>>

\* import_csv_to_mysql and the completion of the table that follows it
ImportTable ==
    /\ pl_pc = "exported"
    /\ LET t == CurrentItem.name
           total_rows == RowsRead(pl_csv)
       IN \E outcome \in LoadOutcomes :
            /\ outcome = "batch_fail_last" => total_rows >= 1
            /\ tgt' = IF outcome = "connect_fail" THEN tgt
                      ELSE [tgt EXCEPT ![TargetName(t)] =
                              [exists |-> TRUE, rows |-> CommittedRows(total_rows, outcome)]]
            /\ LET records == ImportReturn(total_rows, outcome)
               IN table_progress' =
                    IF records > 0
                    THEN Completed(table_progress, t, records,
                                   IF pl_action = "update" THEN "updated" ELSE "completed")
                    ELSE Completed(table_progress, t, 0, "failed")
            /\ pl_fault' = (pl_fault \/ outcome # "ok")
    /\ pl_pc' = "next" /\ pl_idx' = pl_idx + 1
    /\ UNCHANGED <<src_rows, tgt_initial, table_sizes, pl_order, processing_order,
                   pl_action, pl_csv, notPipe>>

\* After the last table: the temporary directory is removed, the database closed
FinishDatabase ==
    /\ pl_pc = "next" /\ pl_idx > Len(pl_order)
    /\ pl_pc' = "done"
    /\ UNCHANGED <<src_rows, tgt, tgt_initial, table_sizes, pl_order, pl_idx, table_progress,
                   processing_order, pl_action, pl_csv, pl_fault, notPipe>>

NextPipe == AnalyzeSizes \/ StartTable \/ SkipOrExport \/ ImportTable \/ FinishDatabase

\* The decision the planner rules prescribe for a target entry and a source estimate
PlannedDecision(entry, estimate) ==
    IF ~entry.exists THEN "create"
    ELSE IF entry.rows = estimate THEN "skip" ELSE "update"

\* C2: the decision made for a table is 'create' when the target table is absent, 'skip'
\* when it exists with as many rows as the estimate, 'update' when it exists with a
\* different row count.
C2_SyncDecision ==
    pl_pc = "started" =>
        pl_action = PlannedDecision(tgt[TargetName(CurrentItem.name)], CurrentItem.size)

SizeOf(t) == LET i == CHOOSE i \in 1..Len(table_sizes) : table_sizes[i].name = t
             IN table_sizes[i].size
Started(t) == \E i \in 1..Len(processing_order) : processing_order[i] = t
IsAscending(items) ==
    \A i \in 1..Len(items), j \in 1..Len(items) : i < j => items[i].size <= items[j].size
SameItems(a, b) ==
    /\ Len(a) = Len(b)
    /\ \A i \in 1..Len(a) : \E j \in 1..Len(b) : a[i] = b[j]
    /\ \A j \in 1..Len(b) : \E i \in 1..Len(a) : a[i] = b[j]

C3_SmallerTableFirst ==
    pl_pc \notin {"idle", "estimate"} =>
        /\ \A t1 \in TableSet, t2 \in TableSet :
             (SizeOf(t1) < SizeOf(t2) /\ Started(t2)) =>
                 table_progress[t1].status \in TerminalStatus
        /\ IsAscending(get_sorted_tables)
        /\ SameItems(get_sorted_tables, table_sizes)

\* The table enumerated second has the smaller estimate, was processed first, and both
\* tables are done
C3_Witness ==
    /\ pl_pc = "done"
    /\ SizeOf(Tables[2]) < SizeOf(Tables[1])
    /\ processing_order = <<Tables[2], Tables[1]>>
    /\ \A t \in TableSet : table_progress[t].status \in TerminalStatus

\* The table whose processing has just ended
LastItem == pl_order[pl_idx - 1]
JustLoaded ==
    /\ pl_pc = "next" /\ pl_idx > 1 /\ pl_csv # NoCsv
    /\ table_progress[LastItem.name].status \in {"completed", "updated"}

FullyExtracted(csv, n) ==
    \/ csv.strategy \in {"bulk", "excel", "idrange", "quoted"}
    \/ csv.strategy = "capped" /\ n <= TOP_LIMIT
    \/ csv.strategy = "cursor" /\ n <= max_rows

CleanRun == ~pl_fault /\ \A x \in TargetSet : ~tgt_initial[x].exists
OrderFollowsRowCount ==
    \A i \in 1..Len(processing_order), j \in 1..Len(processing_order) :
        i < j => src_rows[processing_order[i]] <= src_rows[processing_order[j]]

\* C36: while no count, export or load of the run has failed, no table is recorded as
\* failed; a table of zero rows whose target was created ends completed or updated
C36_NoErrorNoFailure ==
    \A t \in DOMAIN table_progress :
        ~pl_fault =>
            /\ table_progress[t].status # "failed"
            /\ (/\ src_rows[t] = 0
                /\ table_progress[t].status \in TerminalStatus
                /\ tgt[TargetName(t)].exists)
               => table_progress[t].status \in {"completed", "updated"}

\* C9: end to end, when every table exports and loads without error into an empty
\* target, the tables are processed in ascending row-count order, each is present in the
\* target with the source row count, and each ends 'completed'.
C9_EndToEnd ==
    (pl_pc = "done" /\ CleanRun) =>
        /\ OrderFollowsRowCount
        /\ Len(processing_order) = Len(Tables)
        /\ \A t \in TableSet :
             /\ tgt[TargetName(t)].exists
             /\ tgt[TargetName(t)].rows = src_rows[t]
             /\ table_progress[t].status = "completed"

-----------------------------------------------------------------------------
(***************************************************************************)
(* A text column on its way to MySQL.  A cell is a null (None), a float    *)
(* NaN or a string; the strings chosen include the empty string and "nan". *)
(***************************************************************************)
Null == [kind |-> "null", text |-> ""]
NaN == [kind |-> "nan", text |-> ""]
Str(s) == [kind |-> "str", text |-> s]

ColLen == 2
SourceCells == {Null, Str(""), Str("abc"), Str("nan")}
SourceColumns == [1..ColLen -> SourceCells]

\* The cursor and id-range exports: None is written as '', anything else as str(value)
export_field(value) == IF value = Null THEN "" ELSE value.text

\* The default NA strings of pd.read_csv among the texts of the model
NaTexts == {"", "nan"}

\* pd.read_csv: a field whose text is an NA string is read as NaN
read_csv_field(text) == IF text \in NaTexts THEN NaN ELSE Str(text)

\* df.where(pd.notnull(df), None) on an object column
where_notnull(cell) == IF cell.kind \in {"null", "nan"} THEN Null ELSE cell

\* astype(str)
astype_str(cell) ==
    CASE cell.kind = "null" -> Str("None")
      [] cell.kind = "nan" -> Str("nan")
      [] OTHER -> cell

\* .replace('nan', None): either every 'nan' becomes None, or (pad) it takes the value
\* of the row above, the first row staying as it is
RECURSIVE replace_nan(_, _)
replace_nan(col, pad) ==
    IF col = <<>> THEN <<>>
    ELSE LET front == replace_nan(SubSeq(col, 1, Len(col) - 1), pad)
             cell == col[Len(col)]
         IN Append(front,
                   IF cell # Str("nan") THEN cell
                   ELSE IF ~pad THEN Null
                   ELSE IF front = <<>> THEN cell ELSE front[Len(front)])

\* clean_row of migrate_table_data: pd.isna(val) or val == 'nan' gives None
clean_value(cell) ==
    IF cell.kind \in {"null", "nan"} \/ cell = Str("nan") THEN Null ELSE cell

\* What the connector stores for a parameter: None as NULL, a string as itself
stored_value(cell) == IF cell.kind = "str" THEN cell ELSE Null

MapSeq(Op(_), col) == [i \in 1..Len(col) |-> Op(col[i])]

InitNull ==
    /\ nl_pc = "source"
    /\ nl_path \in {"com", "odbc"}
    /\ nl_pad \in BOOLEAN
    /\ nl_path = "com" => nl_pad = FALSE
    /\ nl_source \in SourceColumns
    /\ nl_csv = <<>>
    /\ nl_df = <<>>
    /\ nl_stored = <<>>

IdleNull ==
    /\ nl_pc = "idle"
    /\ nl_path = "com"
    /\ nl_pad = FALSE
    /\ nl_source = <<>>
    /\ nl_csv = <<>>
    /\ nl_df = <<>>
    /\ nl_stored = <<>>

\* export_table_to_csv, row-cursor export: one field per cell
NullExport ==
    /\ nl_pc = "source" /\ nl_path = "com"
    /\ nl_csv' = MapSeq(export_field, nl_source)
    /\ nl_pc' = "csv"
    /\ UNCHANGED <<nl_path, nl_pad, nl_source, nl_df, nl_stored, notNull>>

\* import_csv_to_mysql: pd.read_csv
NullReadCsv ==
    /\ nl_pc = "csv"
    /\ nl_df' = MapSeq(read_csv_field, nl_csv)
    /\ nl_pc' = "frame"
    /\ UNCHANGED <<nl_path, nl_pad, nl_source, nl_csv, nl_stored, notNull>>

\* migrate_table_data: pd.read_sql hands the cells over as they are, NULL as None
NullReadSql ==
    /\ nl_pc = "source" /\ nl_path = "odbc"
    /\ nl_df' = nl_source
    /\ nl_pc' = "frame"
    /\ UNCHANGED <<nl_path, nl_pad, nl_source, nl_csv, nl_stored, notNull>>

\* Both converters: df = df.where(pd.notnull(df), None)
NullWhere ==
    /\ nl_pc = "frame"
    /\ nl_df' = MapSeq(where_notnull, nl_df)
    /\ nl_pc' = "clean"
    /\ UNCHANGED <<nl_path, nl_pad, nl_source, nl_csv, nl_stored, notNull>>

\* migrate_table_data: df[col] = df[col].astype(str).replace('nan', None)
NullAstypeReplace ==
    /\ nl_pc = "clean" /\ nl_path = "odbc"
    /\ nl_df' = replace_nan(MapSeq(astype_str, nl_df), nl_pad)
    /\ nl_pc' = "typed"
    /\ UNCHANGED <<nl_path, nl_pad, nl_source, nl_csv, nl_stored, notNull>>

\* import_csv_to_mysql: the rows are inserted as they stand in the DataFrame
NullInsertCom ==
    /\ nl_pc = "clean" /\ nl_path = "com"
    /\ nl_stored' = MapSeq(stored_value, nl_df)
    /\ nl_pc' = "stored"
    /\ UNCHANGED <<nl_path, nl_pad, nl_source, nl_csv, nl_df, notNull>>

\* migrate_table_data: every value goes through clean_row, then the insert
NullInsertOdbc ==
    /\ nl_pc = "typed"
    /\ nl_stored' = MapSeq(stored_value, MapSeq(clean_value, nl_df))
    /\ nl_pc' = "stored"
    /\ UNCHANGED <<nl_path, nl_pad, nl_source, nl_csv, nl_df, notNull>>

NextNull ==
    \/ NullExport \/ NullReadCsv \/ NullReadSql \/ NullWhere
    \/ NullAstypeReplace \/ NullInsertCom \/ NullInsertOdbc

\* C7: once the column is stored, a null source cell is stored as null (so never as the
\* string "None" or "nan"), and a source empty string is stored as a string, not as null.
C7_NullRoundTrip ==
    nl_pc = "stored" =>
        \A i \in 1..Len(nl_source) :
            /\ nl_source[i] = Null => nl_stored[i] = Null
            /\ nl_source[i] = Str("") => nl_stored[i] # Null

-----------------------------------------------------------------------------
(***************************************************************************)
(* The insert loops of import_csv_to_mysql and migrate_table_data.  A      *)
(* batch goes to the server as one executemany, which raises when the      *)
(* server rejects one of its rows and then inserts none of them.           *)
(***************************************************************************)
odbc_batch_size == 500
MaxFullBatches == 3

batch_size(variant) == IF variant = "com" THEN import_batch_size ELSE odbc_batch_size

\* Rows of batch b: df.iloc[i:i+batch_size]
BatchRows(total, size, b) == Min(size, total - (b - 1) * size)

\* The ways a batch can hold rows the server rejects: none, one row, every row
BadKinds == {"none", "one", "all"}
BadCount(kind, rows) == CASE kind = "none" -> 0 [] kind = "one" -> 1 [] OTHER -> rows

LoadInputs(variant) ==
    {total \in 1..(MaxFullBatches * batch_size(variant) + 1) :
        total % batch_size(variant) \in {0, 1}}

\* Rows of a batch that end up committed once the loop has dealt with it
RowsAfterBatch(variant, rows, bad) ==
    IF bad = 0 THEN rows
    ELSE IF variant = "odbc" THEN rows - bad
    ELSE 0

InitLoad ==
    /\ ld_pc = "loop"
    /\ ld_variant \in {"com", "odbc"}
    /\ ld_total \in LoadInputs(ld_variant)
    /\ LET size == batch_size(ld_variant)
           B == NumBatches(ld_total, size)
       IN \E kind \in [1..B -> BadKinds] :
            ld_bad = [b \in 1..B |-> BadCount(kind[b], BatchRows(ld_total, size, b))]
    /\ ld_batch = 1
    /\ ld_attempted = <<>>
    /\ ld_committed = 0
    /\ ld_retried = <<>>
    /\ ld_result = -1

IdleLoad ==
    /\ ld_pc = "idle"
    /\ ld_variant = "com"
    /\ ld_total = 0
    /\ ld_bad = <<>>
    /\ ld_batch = 1
    /\ ld_attempted = <<>>
    /\ ld_committed = 0
    /\ ld_retried = <<>>
    /\ ld_result = -1

\* One turn of the loop: executemany and commit; when executemany raises,
\* migrate_table_data inserts the rows of the batch one by one, skips those that fail and
\* commits, while import_csv_to_mysql leaves the loop through its except clause and
\* returns 0
LoadBatch ==
    /\ ld_pc = "loop"
    /\ ld_batch <= NumBatches(ld_total, batch_size(ld_variant))
    /\ LET rows == BatchRows(ld_total, batch_size(ld_variant), ld_batch)
           bad == ld_bad[ld_batch]
       IN /\ ld_attempted' = Append(ld_attempted, ld_batch)
          /\ ld_committed' = ld_committed + RowsAfterBatch(ld_variant, rows, bad)
          /\ ld_retried' = IF bad > 0 /\ ld_variant = "odbc"
                           THEN Append(ld_retried, ld_batch) ELSE ld_retried
          /\ IF bad > 0 /\ ld_variant = "com"
             THEN ld_pc' = "returned" /\ ld_result' = 0 /\ UNCHANGED ld_batch
             ELSE ld_batch' = ld_batch + 1 /\ UNCHANGED <<ld_pc, ld_result>>
    /\ UNCHANGED <<ld_variant, ld_total, ld_bad, notLoad>>

\* After the last batch both loaders return total_rows
LoadReturn ==
    /\ ld_pc = "loop"
    /\ ld_batch > NumBatches(ld_total, batch_size(ld_variant))
    /\ ld_pc' = "returned"
    /\ ld_result' = ld_total
    /\ UNCHANGED <<ld_variant, ld_total, ld_bad, ld_batch, ld_attempted, ld_committed,
                   ld_retried, notLoad>>

NextLoad == LoadBatch \/ LoadReturn

LoadBatches == 1..NumBatches(ld_total, batch_size(ld_variant))

\* Batch i is the only batch with a rejected row, and every other batch is full
OnlyBatchFails(i) ==
    /\ ld_bad[i] > 0
    /\ \A b \in LoadBatches \ {i} :
         /\ ld_bad[b] = 0
         /\ BatchRows(ld_total, batch_size(ld_variant), b) = batch_size(ld_variant)

\* C37: the row count a load returns is the number of rows it committed to the target
C37_ReturnIsCommitted ==
    ld_pc = "returned" => ld_result = ld_committed

\* C8: when the load has returned and batch i alone failed as a batch, the rows committed
\* are (B-1)*batchSize plus the rows of batch i that pass one by one, and every batch,
\* the later ones included, was attempted.
C8_BatchFailureIsolation ==
    ld_pc = "returned" =>
        \A i \in LoadBatches :
            OnlyBatchFails(i) =>
                /\ ld_committed =
                       (NumBatches(ld_total, batch_size(ld_variant)) - 1) * batch_size(ld_variant)
                       + (BatchRows(ld_total, batch_size(ld_variant), i) - ld_bad[i])
                /\ Len(ld_attempted) = NumBatches(ld_total, batch_size(ld_variant))

-----------------------------------------------------------------------------
(***************************************************************************)
(* run_conversion for one database, the display thread and the signal      *)
(* handler main() installs.  Python runs a signal handler on the main      *)
(* thread, on top of the frame it interrupts; stats_tracker.lock is a      *)
(* threading.Lock, which its owner cannot acquire a second time.           *)
(***************************************************************************)
MaxSignals == 1

\* The statements of run_conversion, in order
MainSeq == <<"phase_start", "start_thread", "start_access", "phase_discover", "open_db",
             "track_table", "close_db", "phase_complete",
             "f_stop", "f_close_access", "f_display", "f_save", "summary">>
\* Those that are calls of a ConversionStatistics method (with self.lock: ...)
TrackerCalls == {"phase_start", "phase_discover", "track_table", "phase_complete",
                 "f_display", "f_save"}
\* Those inside the try block, whose finally clause runs when SystemExit passes
InTry == {"start_access", "phase_discover", "open_db", "track_table", "close_db",
          "phase_complete"}

After(pc) == LET i == CHOOSE i \in 1..Len(MainSeq) : MainSeq[i] = pc
             IN IF i = Len(MainSeq) THEN "exited" ELSE MainSeq[i + 1]

\* The statements of signal_handler
HandlerSeq == <<"update_phase", "display_progress", "save_final_report", "sys_exit">>
AfterHandler(h) == LET i == CHOOSE i \in 1..Len(HandlerSeq) : HandlerSeq[i] = h
                   IN HandlerSeq[i + 1]

\* The process is gone: the daemon display thread goes with it
Killed(display) == IF display = "notstarted" THEN display ELSE "stopped"

InitSignal ==
    /\ sg_pc = "phase_start"
    /\ sg_hold = FALSE
    /\ sg_exiting = FALSE
    /\ sg_handler = "none"
    /\ sg_signals = 0
    /\ sg_lock = "free"
    /\ sg_display = "notstarted"
    /\ sg_stop_event = FALSE
    /\ sg_access = "none"
    /\ sg_db_open = FALSE
    /\ sg_report = FALSE

IdleSignal ==
    /\ sg_pc = "idle"
    /\ sg_hold = FALSE
    /\ sg_exiting = FALSE
    /\ sg_handler = "none"
    /\ sg_signals = 0
    /\ sg_lock = "free"
    /\ sg_display = "notstarted"
    /\ sg_stop_event = FALSE
    /\ sg_access = "none"
    /\ sg_db_open = FALSE
    /\ sg_report = FALSE

MainRuns == sg_handler = "none" /\ sg_pc \notin {"idle", "exited"}

\* The main thread enters a tracker method: with self.lock
MainAcquire ==
    /\ MainRuns /\ sg_pc \in TrackerCalls /\ ~sg_hold
    /\ sg_lock = "free"
    /\ sg_lock' = "main" /\ sg_hold' = TRUE
    /\ UNCHANGED <<sg_pc, sg_exiting, sg_handler, sg_signals, sg_display, sg_stop_event,
                   sg_access, sg_db_open, sg_report, notSig>>

\* The main thread does the body of the tracker method and leaves the with block;
\* the SystemExit that went through the finally clause then ends the process
MainRelease ==
    /\ MainRuns /\ sg_hold
    /\ sg_lock' = "free" /\ sg_hold' = FALSE
    /\ sg_report' = (sg_report \/ sg_pc = "f_save")
    /\ sg_pc' = IF sg_pc = "f_save" /\ sg_exiting THEN "exited" ELSE After(sg_pc)
    /\ sg_display' = IF sg_pc' = "exited" THEN Killed(sg_display) ELSE sg_display
    /\ UNCHANGED <<sg_exiting, sg_handler, sg_signals, sg_stop_event, sg_access,
                   sg_db_open, notSig>>

\* The statements of run_conversion that are not tracker calls
MainStep ==
    /\ MainRuns /\ sg_pc \notin TrackerCalls
    /\ \E started \in BOOLEAN :
         /\ ~started => sg_pc = "start_access"
         /\ sg_pc' = IF started THEN After(sg_pc) ELSE "f_stop"
         /\ sg_access' = CASE sg_pc = "start_access" /\ started -> "running"
                           [] sg_pc = "f_close_access" -> "none"
                           [] OTHER -> sg_access
    /\ sg_display' = CASE sg_pc = "start_thread" -> "waiting"
                       [] sg_pc = "summary" -> Killed(sg_display)
                       [] OTHER -> sg_display
    /\ sg_stop_event' = (sg_stop_event \/ sg_pc = "f_stop")
    /\ sg_db_open' = CASE sg_pc = "open_db" -> TRUE
                       [] sg_pc \in {"close_db", "f_close_access"} -> FALSE
                       [] OTHER -> sg_db_open
    /\ UNCHANGED <<sg_hold, sg_exiting, sg_handler, sg_signals, sg_lock, sg_report, notSig>>

\* SIGINT or SIGTERM is delivered: signal_handler starts on top of the main thread's frame
Signal ==
    /\ MainRuns /\ sg_signals < MaxSignals
    /\ sg_signals' = sg_signals + 1
    /\ sg_handler' = HandlerSeq[1]
    /\ UNCHANGED <<sg_pc, sg_hold, sg_exiting, sg_lock, sg_display, sg_stop_event,
                   sg_access, sg_db_open, sg_report, notSig>>

\* The handler enters update_phase, display_progress or save_final_report
HandlerAcquire ==
    /\ sg_handler \notin {"none", "sys_exit"} /\ sg_lock = "free"
    /\ sg_lock' = "handler"
    /\ UNCHANGED <<sg_pc, sg_hold, sg_exiting, sg_handler, sg_signals, sg_display,
                   sg_stop_event, sg_access, sg_db_open, sg_report, notSig>>

\* The handler leaves the tracker method it is in
HandlerRelease ==
    /\ sg_handler \notin {"none", "sys_exit"} /\ sg_lock = "handler"
    /\ sg_lock' = "free"
    /\ sg_report' = (sg_report \/ sg_handler = "save_final_report")
    /\ sg_handler' = AfterHandler(sg_handler)
    /\ UNCHANGED <<sg_pc, sg_hold, sg_exiting, sg_signals, sg_display, sg_stop_event,
                   sg_access, sg_db_open, notSig>>

\* sys.exit(1): SystemExit leaves the handler and unwinds run_conversion; inside the try
\* block the finally clause runs, anywhere else the process ends
HandlerExit ==
    /\ sg_handler = "sys_exit"
    /\ sg_handler' = "none"
    /\ IF sg_pc \in InTry
       THEN sg_pc' = "f_stop" /\ sg_exiting' = TRUE /\ UNCHANGED sg_display
       ELSE sg_pc' = "exited" /\ sg_display' = Killed(sg_display) /\ UNCHANGED sg_exiting
    /\ UNCHANGED <<sg_hold, sg_signals, sg_lock, sg_stop_event, sg_access, sg_db_open,
                   sg_report, notSig>>

\* ProgressDisplayThread.run: stop_event.wait times out, or returns True
DisplayWake ==
    /\ sg_display = "waiting"
    /\ sg_display' = IF sg_stop_event THEN "stopped" ELSE "acquire"
    /\ UNCHANGED <<sg_pc, sg_hold, sg_exiting, sg_handler, sg_signals, sg_lock,
                   sg_stop_event, sg_access, sg_db_open, sg_report, notSig>>

\* display_progress on the display thread: with self.lock
DisplayAcquire ==
    /\ sg_display = "acquire" /\ sg_lock = "free"
    /\ sg_lock' = "display" /\ sg_display' = "body"
    /\ UNCHANGED <<sg_pc, sg_hold, sg_exiting, sg_handler, sg_signals, sg_stop_event,
                   sg_access, sg_db_open, sg_report, notSig>>

DisplayRelease ==
    /\ sg_display = "body"
    /\ sg_lock' = "free" /\ sg_display' = "waiting"
    /\ UNCHANGED <<sg_pc, sg_hold, sg_exiting, sg_handler, sg_signals, sg_stop_event,
                   sg_access, sg_db_open, sg_report, notSig>>

NextSignal ==
    \/ MainAcquire \/ MainRelease \/ MainStep
    \/ Signal \/ HandlerAcquire \/ HandlerRelease \/ HandlerExit
    \/ DisplayWake \/ DisplayAcquire \/ DisplayRelease

\* The handler waits for the lock while the frame it interrupted holds it: that frame
\* resumes only when the handler returns, so the lock is never released
HandlerBlockedForever ==
    /\ sg_handler \notin {"none", "sys_exit"}
    /\ sg_lock = "main"

\* C10: after an interrupt the handler is never blocked for ever on the tracker lock, and
\* when the process has exited the display thread is stopped, the report is written and
\* no source database is open.
C10_InterruptReachesExit ==
    sg_signals > 0 =>
        /\ ~HandlerBlockedForever
        /\ sg_pc = "exited" =>
              /\ sg_display \in {"notstarted", "stopped"}
              /\ sg_report
              /\ ~sg_db_open

-----------------------------------------------------------------------------
(***************************************************************************)
(* The accesses to the shared state of ConversionStatistics made while a   *)
(* database is converted, the display thread being alive.  An access is    *)
(* logged with whether the accessing thread held stats_tracker.lock.       *)
(***************************************************************************)
\* The tracker accesses of convert_database: add_table_size for every table, then for
\* each table in turn those of _process_single_table and export_table_to_csv
AccessSeq == <<"add_table_size", "start_table", "export", "read_estimate",
               "update_table_progress", "complete_table">>
LockedMethods == {"add_table_size", "start_table", "update_table_progress",
                  "complete_table"}

\* The fields a site reads or writes
FieldsOf(site) ==
    CASE site = "add_table_size" -> {"table_sizes"}
      [] site = "start_table" -> {"stats", "processing_order", "table_progress"}
      [] site = "read_estimate" -> {"table_sizes"}
      [] site = "update_table_progress" -> {"stats", "table_progress"}
      [] site = "complete_table" -> {"stats", "table_progress"}
      [] site = "display_progress" ->
            {"stats", "table_sizes", "processing_order", "table_progress"}

Access(site, thread, lock) ==
    [site |-> site, thread |-> thread, fields |-> FieldsOf(site), locked |-> lock = thread]

AfterAccess(pc) == LET i == CHOOSE i \in 1..Len(AccessSeq) : AccessSeq[i] = pc
                   IN IF i = Len(AccessSeq) THEN "next_table" ELSE AccessSeq[i + 1]

InitAccess ==
    /\ ac_pc = AccessSeq[1]
    /\ ac_table = 1
    /\ ac_hold = FALSE
    /\ ac_lock = "free"
    /\ ac_display = "waiting"
    /\ ac_log = {}

IdleAccess ==
    /\ ac_pc = "idle"
    /\ ac_table = 1
    /\ ac_hold = FALSE
    /\ ac_lock = "free"
    /\ ac_display = "waiting"
    /\ ac_log = {}

\* The pipeline thread enters a tracker method: with self.lock
AccessAcquire ==
    /\ ac_pc \in LockedMethods /\ ~ac_hold /\ ac_lock = "free"
    /\ ac_lock' = "main" /\ ac_hold' = TRUE
    /\ UNCHANGED <<ac_pc, ac_table, ac_display, ac_log, notAccess>>

\* The body of the tracker method, then the end of the with block
AccessBody ==
    /\ ac_pc \in LockedMethods /\ ac_hold
    /\ ac_log' = ac_log \cup {Access(ac_pc, "main", ac_lock)}
    /\ ac_lock' = "free" /\ ac_hold' = FALSE
    /\ IF ac_pc = "add_table_size"
       THEN IF ac_table < NumTables
            THEN ac_table' = ac_table + 1 /\ UNCHANGED ac_pc
            ELSE ac_table' = 1 /\ ac_pc' = AfterAccess(ac_pc)
       ELSE ac_pc' = AfterAccess(ac_pc) /\ UNCHANGED ac_table
    /\ UNCHANGED <<ac_display, notAccess>>

\* export_table_to_csv: the bulk export succeeds, or the row-cursor export is reached
AccessExport ==
    /\ ac_pc = "export"
    /\ \E cursor \in BOOLEAN :
         ac_pc' = IF cursor THEN "read_estimate" ELSE "complete_table"
    /\ UNCHANGED <<ac_table, ac_hold, ac_lock, ac_display, ac_log, notAccess>>

\* The row-cursor export sizes its progress bar:
\* self.stats_tracker.table_sizes.get(table_name, max_rows), outside any with block
AccessReadEstimate ==
    /\ ac_pc = "read_estimate"
    /\ ac_log' = ac_log \cup {Access("read_estimate", "main", ac_lock)}
    /\ ac_pc' = AfterAccess(ac_pc)
    /\ UNCHANGED <<ac_table, ac_hold, ac_lock, ac_display, notAccess>>

\* The loop of convert_database goes to the next table
AccessNextTable ==
    /\ ac_pc = "next_table"
    /\ IF ac_table < NumTables
       THEN ac_table' = ac_table + 1 /\ ac_pc' = "start_table"
       ELSE ac_pc' = "done" /\ UNCHANGED ac_table
    /\ UNCHANGED <<ac_hold, ac_lock, ac_display, ac_log, notAccess>>

\* ProgressDisplayThread.run: the wait times out
AccessDisplayWake ==
    /\ ac_pc \notin {"idle", "done"} /\ ac_display = "waiting"
    /\ ac_display' = "acquire"
    /\ UNCHANGED <<ac_pc, ac_table, ac_hold, ac_lock, ac_log, notAccess>>

AccessDisplayAcquire ==
    /\ ac_display = "acquire" /\ ac_lock = "free"
    /\ ac_lock' = "display" /\ ac_display' = "body"
    /\ UNCHANGED <<ac_pc, ac_table, ac_hold, ac_log, notAccess>>

\* display_progress reads the four shared fields and leaves the with block
AccessDisplayBody ==
    /\ ac_display = "body"
    /\ ac_log' = ac_log \cup {Access("display_progress", "display", ac_lock)}
    /\ ac_lock' = "free" /\ ac_display' = "waiting"
    /\ UNCHANGED <<ac_pc, ac_table, ac_hold, notAccess>>

NextAccess ==
    \/ AccessAcquire \/ AccessBody \/ AccessExport \/ AccessReadEstimate
    \/ AccessNextTable \/ AccessDisplayWake \/ AccessDisplayAcquire \/ AccessDisplayBody

\* C11: every access to stats, table_sizes, table_progress or processing_order made
\* while the display thread is alive is made by a thread that holds the tracker's lock.
C11_AccessesHoldLock ==
    \A a \in ac_log : a.locked

-----------------------------------------------------------------------------
(***************************************************************************)
(* run_conversion over the discovered databases, then the exit code main   *)
(* derives from the counters.  safe_open_database is taken here by its     *)
(* outcomes; a database is locked for the whole run or not at all.         *)
(***************************************************************************)
NumDatabases == 2
MaxDbTables == 2

LockStates == {"free", "fresh", "locked"}
DbChoices == [lock : LockStates, tables : 0..MaxDbTables]

ZeroStats == [databases_found |-> 0, databases_processed |-> 0, databases_failed |-> 0,
              tables_found |-> 0, tables_processed |-> 0, tables_updated |-> 0,
              tables_failed |-> 0]

\* safe_open_database by its outcomes.  A fresh lock file refuses at once.  With no
\* Access session the call on self.access_app raises AttributeError, whose message holds
\* "open" and is taken for a lock error; after the second lock error Access is
\* restarted, and a failed restart returns False leaving self.access_app at None.
SafeOpenOutcomes(db, access) ==
    CASE db.lock = "fresh" -> {[ok |-> FALSE, access |-> access]}
      [] db.lock = "locked" -> {[ok |-> FALSE, access |-> "running"],
                                [ok |-> FALSE, access |-> "none"]}
      [] db.lock = "free" /\ access = "running" -> {[ok |-> TRUE, access |-> "running"]}
      [] OTHER -> {[ok |-> TRUE, access |-> "running"], [ok |-> FALSE, access |-> "none"]}

OpenCall(by, db, before) == [by |-> by, db |-> db, open_before |-> before]

\* The tables get_table_list and the debug enumeration leave convert_database with:
\* when the second OpenCurrentDatabase raises, get_table_list returns [] and the debug
\* enumeration keeps the first user table only
TablesSeen(db, raised) == IF raised THEN Min(1, db.tables) ELSE db.tables

\* main: the exit code from the counters
ExitCode(stats) ==
    IF stats.databases_failed = 0 /\ stats.tables_failed = 0 THEN 0
    ELSE IF stats.databases_processed > 0
            \/ stats.tables_processed + stats.tables_updated > 0 THEN 1
    ELSE 2

\* what can go wrong in one table: the planner's look at the target, the export, and the
\* import (type inference and load both fail inside import_csv_to_mysql, which returns 0)
TableFaults == {"none", "planner", "export", "import"}
NoTables == [db |-> 0, faults |-> <<>>, statuses |-> <<>>]

\* _process_single_table: an error of the planner is swallowed by should_update_table
\* and the table is created; a failed export or import completes it as failed
TableStatus(fault) == IF fault \in {"none", "planner"} THEN "completed" ELSE "failed"

\* A plausible slip: the first failed table ends the loop over the tables
RECURSIVE ProcessTables_abort(_)
ProcessTables_abort(faults) ==
    IF faults = <<>> THEN <<>>
    ELSE IF TableStatus(Head(faults)) = "failed" THEN <<"failed">>
    ELSE <<TableStatus(Head(faults))>> \o ProcessTables_abort(Tail(faults))

\* convert_database, phases 5 and 6: _process_single_table for every table in turn
RECURSIVE ProcessTables(_)
ProcessTables(faults) ==
    IF faults = <<>> THEN <<>>
    ELSE <<TableStatus(Head(faults))>> \o ProcessTables(Tail(faults))

InitRun ==
    /\ rn_pc = "start"
    /\ \E n \in 0..NumDatabases : rn_dbs \in [1..n -> DbChoices]
    /\ rn_i = 1
    /\ rn_access = "none"
    /\ rn_started = FALSE
    /\ rn_open = 0
    /\ rn_open_calls = {}
    /\ rn_attempted = <<>>
    /\ rn_status = [d \in 1..Len(rn_dbs) |-> "none"]
    /\ rn_migrated = [d \in 1..Len(rn_dbs) |-> 0]
    /\ rn_last = NoTables
    /\ rn_stats = ZeroStats
    /\ rn_report = FALSE
    /\ rn_exit = -1

IdleRun ==
    /\ rn_pc = "idle"
    /\ rn_dbs = <<>>
    /\ rn_i = 1
    /\ rn_access = "none"
    /\ rn_started = FALSE
    /\ rn_open = 0
    /\ rn_open_calls = {}
    /\ rn_attempted = <<>>
    /\ rn_status = <<>>
    /\ rn_migrated = <<>>
    /\ rn_last = NoTables
    /\ rn_stats = ZeroStats
    /\ rn_report = FALSE
    /\ rn_exit = -1

\* start_access, then find_access_databases: without Access, or without any database,
\* run_conversion returns through its finally clause
RunStart ==
    /\ rn_pc = "start"
    /\ \E ok \in BOOLEAN :
         /\ rn_started' = ok
         /\ rn_access' = IF ok THEN "running" ELSE "none"
         /\ rn_pc' = IF ok /\ Len(rn_dbs) > 0 THEN "prescan" ELSE "finally"
    /\ UNCHANGED <<rn_dbs, rn_i, rn_open, rn_open_calls, rn_attempted, rn_status,
                   rn_migrated, rn_last, rn_stats, rn_report, rn_exit, notRun>>

\* One turn of the registration loop: safe_open_database, get_table_list, add_database,
\* safe_close_database
RunPrescan ==
    /\ rn_pc = "prescan"
    /\ \E o \in SafeOpenOutcomes(rn_dbs[rn_i], rn_access), raised \in BOOLEAN :
         /\ rn_access' = o.access
         /\ raised => o.ok
         /\ rn_open_calls' =
               IF o.ok THEN rn_open_calls \cup {OpenCall("safe_open_database", rn_i, 0),
                                                OpenCall("get_table_list", rn_i, rn_i)}
               ELSE rn_open_calls
         /\ rn_stats' = [rn_stats EXCEPT
               !.databases_found = @ + 1,
               !.tables_found = @ + (IF o.ok /\ ~raised THEN rn_dbs[rn_i].tables ELSE 0)]
    /\ rn_open' = 0
    /\ IF rn_i < Len(rn_dbs)
       THEN rn_i' = rn_i + 1 /\ UNCHANGED rn_pc
       ELSE rn_i' = 1 /\ rn_pc' = "convert"
    /\ UNCHANGED <<rn_dbs, rn_started, rn_attempted, rn_status, rn_migrated, rn_last, rn_report,
                   rn_exit, notRun>>

\* One turn of the conversion loop: convert_database, then safe_close_database
RunConvert ==
    /\ rn_pc = "convert"
    /\ \E o \in SafeOpenOutcomes(rn_dbs[rn_i], rn_access), raised \in BOOLEAN,
          faults \in SeqsUpTo(TableFaults, MaxDbTables) :
         LET seen == TablesSeen(rn_dbs[rn_i], raised)
             statuses == ProcessTables(faults)
             bad == Cardinality({t \in DOMAIN statuses : statuses[t] = "failed"})
         IN /\ rn_access' = o.access
            /\ raised => o.ok
            /\ Len(faults) = (IF o.ok THEN seen ELSE 0)
            /\ rn_last' = [db |-> rn_i, faults |-> faults, statuses |-> statuses]
            /\ rn_open_calls' =
                  IF o.ok THEN rn_open_calls \cup {OpenCall("safe_open_database", rn_i, 0),
                                                   OpenCall("get_table_list", rn_i, rn_i)}
                  ELSE rn_open_calls
            /\ rn_status' = [rn_status EXCEPT ![rn_i] = IF o.ok THEN "converted" ELSE "failed"]
            /\ rn_migrated' = [rn_migrated EXCEPT ![rn_i] = Len(statuses) - bad]
            /\ rn_stats' =
                  IF o.ok
                  THEN [rn_stats EXCEPT !.databases_processed = @ + 1,
                                        !.tables_processed = @ + (Len(statuses) - bad),
                                        !.tables_failed = @ + bad]
                  ELSE [rn_stats EXCEPT !.databases_failed = @ + 1]
    /\ rn_attempted' = Append(rn_attempted, rn_i)
    /\ rn_open' = 0
    /\ IF rn_i < Len(rn_dbs)
       THEN rn_i' = rn_i + 1 /\ UNCHANGED rn_pc
       ELSE rn_i' = 1 /\ rn_pc' = "finally"
    /\ UNCHANGED <<rn_dbs, rn_started, rn_report, rn_exit, notRun>>

\* The finally clause: the display thread is stopped, Access closed, the report saved
RunFinally ==
    /\ rn_pc = "finally"
    /\ rn_access' = "none"
    /\ rn_open' = 0
    /\ rn_report' = TRUE
    /\ rn_pc' = "summary"
    /\ UNCHANGED <<rn_dbs, rn_i, rn_started, rn_open_calls, rn_attempted, rn_status,
                   rn_migrated, rn_last, rn_stats, rn_exit, notRun>>

\* main prints the summary and exits
RunExit ==
    /\ rn_pc = "summary"
    /\ rn_exit' = ExitCode(rn_stats)
    /\ rn_pc' = "exited"
    /\ UNCHANGED <<rn_dbs, rn_i, rn_access, rn_started, rn_open, rn_open_calls,
                   rn_attempted, rn_status, rn_migrated, rn_last, rn_stats, rn_report, notRun>>

NextRun == RunStart \/ RunPrescan \/ RunConvert \/ RunFinally \/ RunExit

C12_OneOpenPerDatabase ==
    /\ \A c \in rn_open_calls : c.open_before = 0 /\ c.by = "safe_open_database"
    /\ rn_open = 0

RunDatabases == 1..Len(rn_dbs)

\* C13: when the run has ended, every discovered database was handed to
\* convert_database in discovery order, the databases that could not be opened (fresh
\* lock file, or locked on every attempt) are the ones that failed, and they alone, the
\* failure counter counts them, and the final report is saved.
C13_OnlyLockedDatabasesSkipped ==
    (rn_pc = "exited" /\ rn_started /\ Len(rn_dbs) > 0) =>
        /\ rn_attempted = [d \in RunDatabases |-> d]
        /\ \A d \in RunDatabases : rn_status[d] = "failed" <=> rn_dbs[d].lock # "free"
        /\ rn_stats.databases_failed =
              Cardinality({d \in RunDatabases : rn_dbs[d].lock # "free"})
        /\ rn_report

\* Every database was converted and every table of every database was loaded
FullySuccessful ==
    /\ rn_started
    /\ \A d \in RunDatabases :
         rn_status[d] = "converted" /\ rn_migrated[d] = rn_dbs[d].tables
NothingMigrated == \A d \in RunDatabases : rn_migrated[d] = 0

\* C14: the exit code is 0 only for a fully successful run; for a run that is not, it
\* is 2 when nothing was migrated and 1 otherwise.
C14_ExitCodeByOutcome ==
    rn_pc = "exited" =>
        /\ rn_exit = 0 => FullySuccessful
        /\ (~FullySuccessful /\ NothingMigrated) => rn_exit = 2
        /\ (~FullySuccessful /\ ~NothingMigrated) => rn_exit = 1

-----------------------------------------------------------------------------
(***************************************************************************)
(* The target database under the three loaders.  A source table is loaded  *)
(* into the target table named by its sanitized name:                      *)
(*   com     DROP TABLE IF EXISTS, CREATE TABLE, INSERT                     *)
(*   odbc    CREATE TABLE (fails on an existing table), then INSERT        *)
(*   legacy  CREATE TABLE IF NOT EXISTS, INSERT                            *)
(***************************************************************************)
NumRuns == 2
MaxSourceTables == 2
SourceNames == {<<"a", " ">>, <<"a", "_">>, <<"Z", "a">>}
SourceRows == {1, 2}

\* the target table name a loader derives from a source table name
TargetTableName(variant, name) ==
    IF variant = "com" THEN sanitize_name(name).val ELSE sanitize_name_odbc(name).val

TargetNames == {TargetTableName(v, n) : v \in {"com", "odbc", "legacy"}, n \in SourceNames}
NoTable == [exists |-> FALSE, rows |-> 0, owners |-> {}]

\* AccessCOMConverter.import_csv_to_mysql: the table is dropped and created anew
import_csv_to_mysql(target, tname, idx, rows) ==
    [target EXCEPT ![tname] = [exists |-> TRUE, rows |-> rows, owners |-> {idx}]]

\* AccessToMySQLConverter.create_mysql_table: plain CREATE TABLE
create_mysql_table(target, tname) == ~target[tname].exists

\* AccessToMySQLConverter.migrate_table_data after a successful create
migrate_table_data(target, tname, idx, rows) ==
    [target EXCEPT ![tname] = [exists |-> TRUE, rows |-> rows, owners |-> {idx}]]

\* LegacyAccessConverter.import_csv_to_mysql: the rows are added to whatever is there
legacy_import_csv_to_mysql(target, tname, idx, rows) ==
    [target EXCEPT ![tname] = [exists |-> TRUE, rows |-> @.rows + rows,
                               owners |-> @.owners \cup {idx}]]

TableLists ==
    {s \in UNION {[1..n -> [name : SourceNames, rows : SourceRows]] : n \in 1..MaxSourceTables} :
        \A i, j \in DOMAIN s : i # j => s[i].name # s[j].name}

InitTarget ==
    /\ tg_pc = "load"
    /\ tg_variant \in {"com", "odbc", "legacy"}
    /\ tg_tables \in TableLists
    /\ tg_run = 1
    /\ tg_idx = 1
    /\ tg_target = [n \in TargetNames |-> NoTable]
    /\ tg_status = [r \in 1..NumRuns |-> [i \in DOMAIN tg_tables |-> "none"]]
    /\ tg_reported = {}
    /\ tg_first = [n \in TargetNames |-> NoTable]

IdleTarget ==
    /\ tg_pc = "idle"
    /\ tg_variant = "com"
    /\ tg_tables = <<>>
    /\ tg_run = 0
    /\ tg_idx = 0
    /\ tg_target = <<>>
    /\ tg_status = <<>>
    /\ tg_reported = {}
    /\ tg_first = <<>>

TargetLoading(variant) ==
    /\ tg_pc = "load"
    /\ tg_variant = variant
    /\ tg_idx \in DOMAIN tg_tables

\* AccessCOMConverter._process_single_table: export, then import_csv_to_mysql
LoadCom ==
    /\ TargetLoading("com")
    /\ LET t == tg_tables[tg_idx]
           tname == TargetTableName("com", t.name)
       IN /\ tg_target' = import_csv_to_mysql(tg_target, tname, tg_idx, t.rows)
          /\ tg_status' = [tg_status EXCEPT ![tg_run][tg_idx] = "ok"]
    /\ tg_idx' = tg_idx + 1
    /\ UNCHANGED <<tg_pc, tg_variant, tg_tables, tg_run, tg_reported, tg_first>>
    /\ UNCHANGED notTarget

\* AccessToMySQLConverter.convert_database, one table of its loop
LoadOdbc ==
    /\ TargetLoading("odbc")
    /\ LET t == tg_tables[tg_idx]
           tname == TargetTableName("odbc", t.name)
       IN IF create_mysql_table(tg_target, tname)
          THEN /\ tg_target' = migrate_table_data(tg_target, tname, tg_idx, t.rows)
               /\ tg_status' = [tg_status EXCEPT ![tg_run][tg_idx] = "ok"]
               /\ UNCHANGED tg_reported
          ELSE /\ tg_status' = [tg_status EXCEPT ![tg_run][tg_idx] = "failed"]
               /\ tg_reported' = tg_reported \cup {<<tg_run, tg_idx>>}
               /\ UNCHANGED tg_target
    /\ tg_idx' = tg_idx + 1
    /\ UNCHANGED <<tg_pc, tg_variant, tg_tables, tg_run, tg_first>>
    /\ UNCHANGED notTarget

\* LegacyAccessConverter.convert_via_com, one table of its loop
LoadLegacy ==
    /\ TargetLoading("legacy")
    /\ LET t == tg_tables[tg_idx]
           tname == TargetTableName("legacy", t.name)
       IN /\ tg_target' = legacy_import_csv_to_mysql(tg_target, tname, tg_idx, t.rows)
          /\ tg_status' = [tg_status EXCEPT ![tg_run][tg_idx] = "ok"]
    /\ tg_idx' = tg_idx + 1
    /\ UNCHANGED <<tg_pc, tg_variant, tg_tables, tg_run, tg_reported, tg_first>>
    /\ UNCHANGED notTarget

\* the run is over; the migration is started again on the same source and target
TargetRerun ==
    /\ tg_pc = "load"
    /\ tg_idx > Len(tg_tables)
    /\ tg_run < NumRuns
    /\ tg_first' = IF tg_run = 1 THEN tg_target ELSE tg_first
    /\ tg_run' = tg_run + 1
    /\ tg_idx' = 1
    /\ UNCHANGED <<tg_pc, tg_variant, tg_tables, tg_target, tg_status, tg_reported>>
    /\ UNCHANGED notTarget

\* the last run is over
TargetDone ==
    /\ tg_pc = "load"
    /\ tg_idx > Len(tg_tables)
    /\ tg_run = NumRuns
    /\ tg_pc' = "done"
    /\ UNCHANGED <<tg_variant, tg_tables, tg_run, tg_idx, tg_target, tg_status, tg_reported,
                   tg_first>>
    /\ UNCHANGED notTarget

NextTarget == LoadCom \/ LoadOdbc \/ LoadLegacy \/ TargetRerun \/ TargetDone

FirstRunOver == tg_pc = "load" /\ tg_run = 1 /\ tg_idx > Len(tg_tables)
SecondRunOver == tg_pc # "idle" /\ tg_run = 2 /\ tg_idx > Len(tg_tables)
Collide(i, j) ==
    i < j /\ TargetTableName(tg_variant, tg_tables[i].name) = TargetTableName(tg_variant, tg_tables[j].name)

\* C15: when the first run is over, of two source tables whose names sanitize to the same
\* target name the second was reported and the target table holds the first table's rows only
C15_NoSharedTargetTable ==
    FirstRunOver =>
        \A i, j \in DOMAIN tg_tables :
            Collide(i, j) =>
                LET tt == tg_target[TargetTableName(tg_variant, tg_tables[i].name)] IN
                /\ <<1, j>> \in tg_reported
                /\ tt.owners = {i}
                /\ tt.rows = tg_tables[i].rows

\* C16: when the second run is over, every target table holds what the first run left and
\* every table that succeeded in the first run succeeded in the second
C16_Repeatable ==
    SecondRunOver =>
        /\ tg_target = tg_first
        /\ \A i \in DOMAIN tg_tables : tg_status[1][i] = "ok" => tg_status[2][i] = "ok"

-----------------------------------------------------------------------------
(***************************************************************************)
(* ConversionStatistics: counters, per-table records and the final report. *)
(* The calls come in the order the converter makes them: start_database,   *)
(* then per table start_table, update_table_progress*, complete_table.     *)
(* A database is named by its index.                                       *)
(***************************************************************************)
MaxOps == 8
TrackNames == {"Orders", "Users"}
TrackRows == {0, 500}
TrackStatuses == {"completed", "updated", "skipped", "failed"}

InitStats ==
    [databases_processed |-> 0, databases_failed |-> 0,
     tables_processed |-> 0, tables_failed |-> 0, tables_updated |-> 0, tables_skipped |-> 0,
     total_rows_processed |-> 0, total_rows_failed |-> 0,
     current_database |-> 0, current_table |-> "", current_table_rows |-> 0]

\* a name with no entry in table_progress
NoProgress == [status |-> "absent", processed_rows |-> 0, final_rows |-> 0, db |-> 0]
NoOp == [op |-> "none", name |-> "", rows |-> 0, status |-> ""]
NoReport == [written |-> FALSE]

\* ConversionStatistics.start_table; db (not stored by the code) records for which
\* database the entry was created
start_table_stats(stats, name) ==
    [stats EXCEPT !.current_table = name, !.current_table_rows = 0]
start_table_progress(progress, name, db) ==
    [progress EXCEPT ![name] = [status |-> "processing", processed_rows |-> 0,
                                final_rows |-> 0, db |-> db]]

\* ConversionStatistics.update_table_progress
update_table_progress_stats(stats, rows) == [stats EXCEPT !.current_table_rows = rows]
update_table_progress_progress(progress, name, rows) ==
    IF progress[name].status # "absent"
    THEN [progress EXCEPT ![name].processed_rows = rows]
    ELSE progress

\* ConversionStatistics.complete_table, the counters: a skipped table adds its rows to
\* the processed total as well
complete_table_stats_skipped_rows(stats, rows, status) ==
    CASE status = "completed" ->
            [stats EXCEPT !.tables_processed = @ + 1, !.total_rows_processed = @ + rows]
      [] status = "updated" ->
            [stats EXCEPT !.tables_updated = @ + 1, !.total_rows_processed = @ + rows]
      [] status = "skipped" ->
            [stats EXCEPT !.tables_skipped = @ + 1, !.total_rows_processed = @ + rows]
      [] OTHER ->
            [stats EXCEPT !.tables_failed = @ + 1, !.total_rows_failed = @ + rows]

\* ConversionStatistics.complete_table, the counters
complete_table_stats(stats, rows, status) ==
    CASE status = "completed" ->
            [stats EXCEPT !.tables_processed = @ + 1, !.total_rows_processed = @ + rows]
      [] status = "updated" ->
            [stats EXCEPT !.tables_updated = @ + 1, !.total_rows_processed = @ + rows]
      [] status = "skipped" ->
            [stats EXCEPT !.tables_skipped = @ + 1]
      [] OTHER ->
            [stats EXCEPT !.tables_failed = @ + 1, !.total_rows_failed = @ + rows]

\* ConversionStatistics.complete_table, the table's record
complete_table_progress(progress, name, rows, status) ==
    IF progress[name].status # "absent"
    THEN [progress EXCEPT ![name].status = status, ![name].final_rows = rows]
    ELSE progress

InitTracker ==
    /\ tk_pc = "tracking"
    /\ tk_stats = InitStats
    /\ tk_progress = [n \in TrackNames |-> NoProgress]
    /\ tk_order = <<>>
    /\ tk_db = 0
    /\ tk_db_outcome = [d \in 1..NumDatabases |-> "none"]
    /\ tk_unit = [d \in 1..NumDatabases |-> [n \in TrackNames |-> "none"]]
    /\ tk_ops = 0
    /\ tk_ncalls = 0
    /\ tk_op = NoOp
    /\ tk_prev = [stats |-> InitStats, progress |-> [n \in TrackNames |-> NoProgress]]
    /\ tk_report = NoReport

IdleTracker ==
    /\ tk_pc = "idle"
    /\ tk_stats = InitStats
    /\ tk_progress = <<>>
    /\ tk_order = <<>>
    /\ tk_db = 0
    /\ tk_db_outcome = <<>>
    /\ tk_unit = <<>>
    /\ tk_ops = 0
    /\ tk_ncalls = 0
    /\ tk_op = NoOp
    /\ tk_prev = <<>>
    /\ tk_report = NoReport

\* one more tracker call is made; the state before it is remembered
TrackerCall(op, name, rows, status) ==
    /\ tk_pc = "tracking"
    /\ tk_ops < MaxOps
    /\ tk_ops' = tk_ops + 1
    /\ tk_op' = [op |-> op, name |-> name, rows |-> rows, status |-> status]
    /\ tk_prev' = [stats |-> tk_stats, progress |-> tk_progress]

TableInProgress == tk_db # 0 /\ \E n \in TrackNames : tk_progress[n].status = "processing"

\* convert_database begins: ConversionStatistics.start_database
TrackStartDatabase ==
    /\ ~TableInProgress
    /\ tk_db < NumDatabases
    /\ tk_db # 0 => tk_db_outcome[tk_db] # "none"
    /\ TrackerCall("start_database", "", 0, "")
    /\ tk_db' = tk_db + 1
    /\ tk_stats' = [tk_stats EXCEPT !.current_database = tk_db + 1]
    /\ UNCHANGED <<tk_pc, tk_progress, tk_order, tk_db_outcome, tk_unit, tk_ncalls, tk_report>>
    /\ UNCHANGED notTracker

\* convert_database ends: ConversionStatistics.complete_database
TrackCompleteDatabase ==
    /\ tk_db # 0
    /\ tk_db_outcome[tk_db] = "none"
    /\ ~TableInProgress
    /\ \E success \in BOOLEAN :
        /\ TrackerCall("complete_database", "", 0, IF success THEN "processed" ELSE "failed")
        /\ tk_stats' = IF success
                       THEN [tk_stats EXCEPT !.databases_processed = @ + 1]
                       ELSE [tk_stats EXCEPT !.databases_failed = @ + 1]
        /\ tk_db_outcome' = [tk_db_outcome EXCEPT
                                ![tk_db] = IF success THEN "processed" ELSE "failed"]
    /\ UNCHANGED <<tk_pc, tk_progress, tk_order, tk_db, tk_unit, tk_ncalls, tk_report>>
    /\ UNCHANGED notTracker

\* _process_single_table begins: ConversionStatistics.start_table
TrackStartTable ==
    /\ tk_db # 0
    /\ tk_db_outcome[tk_db] = "none"
    /\ ~TableInProgress
    /\ \E name \in TrackNames :
        /\ tk_unit[tk_db][name] = "none"
        /\ TrackerCall("start_table", name, 0, "")
        /\ tk_stats' = start_table_stats(tk_stats, name)
        /\ tk_progress' = start_table_progress(tk_progress, name, tk_db)
        /\ tk_order' = IF \E i \in DOMAIN tk_order : tk_order[i] = name
                       THEN tk_order ELSE Append(tk_order, name)
    /\ UNCHANGED <<tk_pc, tk_db, tk_db_outcome, tk_unit, tk_ncalls, tk_report>>
    /\ UNCHANGED notTracker

\* the row-cursor export reports its progress: ConversionStatistics.update_table_progress
TrackUpdateProgress ==
    /\ TableInProgress
    /\ \E rows \in TrackRows :
        LET name == tk_stats.current_table IN
        /\ TrackerCall("update_table_progress", name, rows, "")
        /\ tk_stats' = update_table_progress_stats(tk_stats, rows)
        /\ tk_progress' = update_table_progress_progress(tk_progress, name, rows)
    /\ UNCHANGED <<tk_pc, tk_order, tk_db, tk_db_outcome, tk_unit, tk_ncalls, tk_report>>
    /\ UNCHANGED notTracker

\* _process_single_table ends: ConversionStatistics.complete_table
TrackCompleteTable ==
    /\ TableInProgress
    /\ \E rows \in TrackRows, status \in TrackStatuses :
        LET name == tk_stats.current_table IN
        /\ TrackerCall("complete_table", name, rows, status)
        /\ tk_stats' = complete_table_stats(tk_stats, rows, status)
        /\ tk_progress' = complete_table_progress(tk_progress, name, rows, status)
        /\ tk_unit' = [tk_unit EXCEPT ![tk_db][name] = status]
    /\ tk_ncalls' = tk_ncalls + 1
    /\ UNCHANGED <<tk_pc, tk_order, tk_db, tk_db_outcome, tk_report>>
    /\ UNCHANGED notTracker

\* run_conversion's finally block: ConversionStatistics.save_final_report
TrackSaveReport ==
    /\ tk_pc = "tracking"
    /\ ~TableInProgress
    /\ tk_db # 0 => tk_db_outcome[tk_db] # "none"
    /\ tk_pc' = "reported"
    /\ tk_report' = [written |-> TRUE, statistics |-> tk_stats,
                     table_details |-> tk_progress, processing_order |-> tk_order]
    /\ UNCHANGED <<tk_stats, tk_progress, tk_order, tk_db, tk_db_outcome, tk_unit, tk_ops,
                   tk_ncalls, tk_op, tk_prev>>
    /\ UNCHANGED notTracker

NextTracker ==
    \/ TrackStartDatabase
    \/ TrackCompleteDatabase
    \/ TrackStartTable
    \/ TrackUpdateProgress
    \/ TrackCompleteTable
    \/ TrackSaveReport

\* the database names a report mentions: statistics.current_database only
DatabasesNamed(report) == {report.statistics.current_database} \ {0}

\* C17: the saved report holds, for every failed table of every database, a 'failed' record
\* of that table of that database, and names every failed database
C17_ReportNamesEveryFailedUnit ==
    tk_pc = "reported" =>
        /\ \A d \in 1..NumDatabases, n \in TrackNames :
              tk_unit[d][n] = "failed" =>
                  /\ tk_report.table_details[n].status = "failed"
                  /\ tk_report.table_details[n].db = d
        /\ \A d \in 1..NumDatabases :
              tk_db_outcome[d] = "failed" => d \in DatabasesNamed(tk_report)

TableCounters(stats) ==
    stats.tables_processed + stats.tables_updated + stats.tables_skipped + stats.tables_failed

\* the counter complete_table increments for a status
CounterOf(status) ==
    CASE status = "completed" -> "tables_processed"
      [] status = "updated" -> "tables_updated"
      [] status = "skipped" -> "tables_skipped"
      [] status = "failed" -> "tables_failed"

CounterFields ==
    {"databases_processed", "databases_failed", "tables_processed", "tables_failed",
     "tables_updated", "tables_skipped", "total_rows_processed", "total_rows_failed"}

\* C28: a tracker call leaves every record that had a terminal status as it was, and every
\* table completed in some database has its own record, with the status it was completed
\* with
C28_TerminalRecordsFrozen ==
    tk_ops > 0 =>
        /\ \A n \in TrackNames :
              tk_prev.progress[n].status \in TerminalStatus =>
                  tk_progress[n] = tk_prev.progress[n]
        /\ \A dn \in (1..NumDatabases) \X TrackNames :
              tk_unit[dn[1]][dn[2]] # "none" =>
                  /\ tk_progress[dn[2]].db = dn[1]
                  /\ tk_progress[dn[2]].status = tk_unit[dn[1]][dn[2]]

\* C20: each complete_table call added one to exactly the counter of its status, added its
\* rows to total_rows_processed for 'completed' and 'updated' only and to total_rows_failed
\* for 'failed' only; the four table counters sum to the number of complete_table calls;
\* update_table_progress changed nothing but current_table_rows and the table's
\* processed_rows
C20_CountersFollowCalls ==
    /\ tk_pc # "idle" => TableCounters(tk_stats) = tk_ncalls
    /\ tk_op.op = "complete_table" =>
          /\ \A f \in {"tables_processed", "tables_updated", "tables_skipped", "tables_failed"} :
                tk_stats[f] = tk_prev.stats[f] + (IF f = CounterOf(tk_op.status) THEN 1 ELSE 0)
          /\ tk_stats.total_rows_processed = tk_prev.stats.total_rows_processed
                + (IF tk_op.status \in {"completed", "updated"} THEN tk_op.rows ELSE 0)
          /\ tk_stats.total_rows_failed = tk_prev.stats.total_rows_failed
                + (IF tk_op.status = "failed" THEN tk_op.rows ELSE 0)
    /\ tk_op.op = "update_table_progress" =>
          /\ \A f \in CounterFields \cup {"current_database", "current_table"} :
                tk_stats[f] = tk_prev.stats[f]
          /\ tk_stats.current_table_rows = tk_op.rows
          /\ \A n \in TrackNames :
                tk_progress[n] = IF n = tk_op.name
                                 THEN [tk_prev.progress[n] EXCEPT !.processed_rows = tk_op.rows]
                                 ELSE tk_prev.progress[n]

\* C20 witness: a completed table and then a skipped table, both with rows, have been counted
C20_Witness ==
    /\ tk_op.op = "complete_table"
    /\ tk_op.status = "skipped"
    /\ tk_op.rows = 500
    /\ tk_stats.tables_processed = 1
    /\ tk_stats.total_rows_processed = 500
    /\ tk_ncalls = 2

-----------------------------------------------------------------------------
(***************************************************************************)
(* Type inference.  A cell of the sample is an integer, a float, NaN or a  *)
(* text; len is the length of its str().  A column's dtype is the one      *)
(* pandas.read_csv infers for such cells.  An integer of 2^31 or more is   *)
(* beyond the checker's integers: it is carried as big, with val unused.   *)
(***************************************************************************)
MaxCols == 2
IntCell(n, l) == [kind |-> "int", val |-> n, big |-> FALSE, len |-> l]
BigIntCell == [kind |-> "int", val |-> 0, big |-> TRUE, len |-> 10]
FloatCell == [kind |-> "float", val |-> 0, big |-> FALSE, len |-> 3]
NaCell == [kind |-> "nan", val |-> 0, big |-> FALSE, len |-> 3]
TextCell(l) == [kind |-> "text", val |-> 0, big |-> FALSE, len |-> l]

SampleCells ==
    {<<>>, <<NaCell>>, <<IntCell(5, 1)>>, <<IntCell(127, 3), IntCell(128, 3)>>,
     <<IntCell(0 - 200, 4)>>, <<IntCell(32767, 5)>>, <<IntCell(32768, 5)>>,
     <<IntCell(2147483647, 10)>>, <<IntCell(5, 1), BigIntCell>>,
     <<IntCell(5, 1), NaCell>>, <<FloatCell>>, <<TextCell(3)>>,
     <<TextCell(205), TextCell(206)>>, <<TextCell(255), NaCell>>, <<TextCell(256)>>,
     <<IntCell(5, 1), TextCell(3)>>}

\* the dtype read_csv gives a column
dtype(cells) ==
    IF Len(cells) = 0 \/ \E i \in DOMAIN cells : cells[i].kind = "text" THEN "object"
    ELSE IF \A i \in DOMAIN cells : cells[i].kind = "int" THEN "int64"
    ELSE "float64"

\* Series.dropna()
dropna(cells) == SelectSeq(cells, LAMBDA c : c.kind # "nan")

RECURSIVE SeqMax(_, _)
\* max over a non-empty sequence of the values F gives
SeqMax(F(_), s) ==
    IF Len(s) = 1 THEN F(s[1])
    ELSE LET m == SeqMax(F, Tail(s)) IN IF F(s[1]) > m THEN F(s[1]) ELSE m

CellVal(c) == c.val
CellLen(c) == c.len

\* a MySQL column type; n is the length of a VARCHAR
SqlType(t) == [t |-> t, n |-> 0]
Varchar(n) == [t |-> "VARCHAR", n |-> n]

\* the integer branch on series.max(); the maximum is 2^31 or more exactly when a cell is big
IntegerType(series) ==
    LET big == \E i \in DOMAIN series : series[i].big
        max_val == SeqMax(CellVal, series)
    IN IF ~big /\ max_val < 128 THEN SqlType("TINYINT")
       ELSE IF ~big /\ max_val < 32768 THEN SqlType("SMALLINT")
       ELSE IF ~big THEN SqlType("INT")
       ELSE SqlType("BIGINT")

VarcharType(max_length) ==
    IF max_length <= 255 THEN Varchar(Min(max_length + 50, 255)) ELSE SqlType("TEXT")

\* AccessCOMConverter.analyze_csv_structure, the type of one column
column_type(cells) ==
    LET series == dropna(cells) IN
    IF Len(series) = 0 THEN SqlType("TEXT")
    ELSE IF dtype(cells) = "int64" THEN IntegerType(series)
    ELSE IF dtype(cells) = "float64" THEN SqlType("DOUBLE")
    ELSE VarcharType(SeqMax(CellLen, series))

\* CSVToMySQLConverter.infer_mysql_type: no dropna; an empty series has defaults
infer_mysql_type(cells) ==
    IF dtype(cells) = "int64"
    THEN IntegerType(cells)
    ELSE IF dtype(cells) = "float64" THEN SqlType("DOUBLE")
    ELSE VarcharType(IF Len(cells) = 0 THEN 50 ELSE SeqMax(CellLen, cells))

\* column_types[key] = value on an insertion-ordered dict held as a sequence of pairs
DictSet(dict, key, value) ==
    IF \E i \in DOMAIN dict : dict[i][1] = key
    THEN [i \in DOMAIN dict |-> IF dict[i][1] = key THEN <<key, value>> ELSE dict[i]]
    ELSE Append(dict, <<key, value>>)

RECURSIVE ColumnTypes(_, _)
\* the loop over df_sample.columns
ColumnTypes(sample, dict) ==
    IF sample = <<>> THEN dict
    ELSE ColumnTypes(Tail(sample),
                     DictSet(dict, sanitize_name(Head(sample).name).val,
                             column_type(Head(sample).cells)))

\* analyze_csv_structure when it also counts the table in the tracker
analyze_csv_structure_counting(state, sample) ==
    [state |-> [state EXCEPT !.tables_processed = @ + 1],
     types |-> ColumnTypes(sample, <<>>)]

\* AccessCOMConverter.analyze_csv_structure: the state it leaves and the map it returns
analyze_csv_structure(state, sample) ==
    [state |-> state, types |-> ColumnTypes(sample, <<>>)]

\* CSVToMySQLConverter.convert_csv_file, the column list of its CREATE TABLE: the columns
\* are renamed first, and df[col] of a repeated name is not a series: the exception ends
\* the conversion with no column list
csv_column_types(state, sample) ==
    LET names == [i \in DOMAIN sample |-> sanitize_name_csv(sample[i].name).val] IN
    [state |-> state,
     types |-> IF \E i, j \in DOMAIN sample : i # j /\ names[i] = names[j]
               THEN <<>>
               ELSE [i \in DOMAIN sample |-> <<names[i], infer_mysql_type(sample[i].cells)>>]]

Samples ==
    {s \in UNION {[1..n -> [name : SourceNames, cells : SampleCells]] : n \in 1..MaxCols} :
        \A i, j \in DOMAIN s : i # j => s[i].name # s[j].name}

InitAnalyze ==
    /\ an_pc = "ready"
    /\ an_variant \in {"com", "csv"}
    /\ an_sample \in Samples
    /\ an_state = [tables_processed |-> 0, target_created |-> FALSE]
    /\ an_runs = <<>>
    /\ an_last = "none"
    /\ an_before = [tables_processed |-> 0, target_created |-> FALSE]

IdleAnalyze ==
    /\ an_pc = "idle"
    /\ an_variant = "com"
    /\ an_sample = <<>>
    /\ an_state = <<>>
    /\ an_runs = <<>>
    /\ an_last = "none"
    /\ an_before = <<>>

Infer(r) ==
    /\ an_pc = "ready"
    /\ Len(an_runs) < NumRuns
    /\ an_runs' = Append(an_runs, r.types)
    /\ an_before' = an_state
    /\ an_state' = r.state
    /\ an_last' = "infer"
    /\ UNCHANGED <<an_pc, an_variant, an_sample>>

\* import_csv_to_mysql calls analyze_csv_structure on the CSV file
AnalyzeCsv ==
    /\ an_variant = "com"
    /\ Infer(analyze_csv_structure(an_state, an_sample))
    /\ UNCHANGED notAnalyze

\* convert_csv_file infers the type of each column of the file
InferCsv ==
    /\ an_variant = "csv"
    /\ Infer(csv_column_types(an_state, an_sample))
    /\ UNCHANGED notAnalyze

\* the rest of the import: the target table is created and the table is counted
AnalyzeImport ==
    /\ an_pc = "ready"
    /\ ~an_state.target_created
    /\ an_before' = an_state
    /\ an_state' = [tables_processed |-> an_state.tables_processed + 1, target_created |-> TRUE]
    /\ an_last' = "import"
    /\ UNCHANGED <<an_pc, an_variant, an_sample, an_runs>>
    /\ UNCHANGED notAnalyze

NextAnalyze == AnalyzeCsv \/ InferCsv \/ AnalyzeImport

NarrowestInteger(cells) ==
    LET within(lo, hi) == \A i \in DOMAIN cells :
                              ~cells[i].big /\ lo <= cells[i].val /\ cells[i].val <= hi
    IN IF within(0 - 128, 127) THEN SqlType("TINYINT")
       ELSE IF within(0 - 32768, 32767) THEN SqlType("SMALLINT")
       ELSE IF \A i \in DOMAIN cells : ~cells[i].big THEN SqlType("INT")
       ELSE SqlType("BIGINT")

\* C31: the type inferred for a column of integers only is the narrowest integer type whose
\* signed range holds every value of the sample
C31_NarrowestIntegerType ==
    (/\ an_runs # <<>>
     /\ Len(an_sample) = 1
     /\ an_sample[1].cells # <<>>
     /\ \A i \in DOMAIN an_sample[1].cells : an_sample[1].cells[i].kind = "int")
    => an_runs[1][1][2] = NarrowestInteger(an_sample[1].cells)

-----------------------------------------------------------------------------
(***************************************************************************)
(* ProgressDisplayThread.run: while not stop_event.wait(interval):         *)
(* display_progress().  The main thread makes tracker calls under the same *)
(* lock, calls stop() once, and goes on to save_final_report.              *)
(***************************************************************************)
MaxMainCalls == 3
MaxDisplayCalls == 3

\* stop_event.wait(update_interval) when it returns: True exactly if the event is set;
\* here it never reports the event
stop_event_wait_deaf(event) == FALSE

\* stop_event.wait(update_interval) when it returns: True exactly if the event is set
stop_event_wait(event) == event

\* ConversionStatistics.display_progress: reads and prints, assigns nothing
display_progress(stats) == stats

InitDisplay ==
    /\ dp_pc = "waiting"
    /\ dp_stop = FALSE
    /\ dp_lock = "free"
    /\ dp_main = 0
    /\ dp_stats = 0
    /\ dp_calls = 0
    /\ dp_calls_at_stop = 0 - 1
    /\ dp_last = "none"
    /\ dp_before = 0

IdleDisplay ==
    /\ dp_pc = "idle"
    /\ dp_stop = FALSE
    /\ dp_lock = "free"
    /\ dp_main = 0
    /\ dp_stats = 0
    /\ dp_calls = 0
    /\ dp_calls_at_stop = 0 - 1
    /\ dp_last = "none"
    /\ dp_before = 0

\* the wait returns: the loop ends if the event is set, else display_progress is called
DisplayWait ==
    /\ dp_pc = "waiting"
    /\ IF stop_event_wait(dp_stop)
       THEN dp_pc' = "terminated" /\ UNCHANGED dp_calls
       ELSE dp_calls < MaxDisplayCalls /\ dp_pc' = "calling" /\ dp_calls' = dp_calls + 1
    /\ UNCHANGED <<dp_stop, dp_lock, dp_main, dp_stats, dp_calls_at_stop, dp_last, dp_before>>
    /\ UNCHANGED notDisplay

\* display_progress enters `with self.lock`
DisplayLock ==
    /\ dp_pc = "calling"
    /\ dp_lock = "free"
    /\ dp_lock' = "display"
    /\ dp_pc' = "printing"
    /\ dp_before' = dp_stats
    /\ UNCHANGED <<dp_stop, dp_main, dp_stats, dp_calls, dp_calls_at_stop, dp_last>>
    /\ UNCHANGED notDisplay

\* display_progress prints, leaves the lock and the loop waits again
DisplayPrint ==
    /\ dp_pc = "printing"
    /\ dp_stats' = display_progress(dp_stats)
    /\ dp_lock' = "free"
    /\ dp_last' = "display"
    /\ dp_pc' = "waiting"
    /\ UNCHANGED <<dp_stop, dp_main, dp_calls, dp_calls_at_stop, dp_before>>
    /\ UNCHANGED notDisplay

\* the main thread enters a tracker method (`with self.lock`)
DisplayMainLock ==
    /\ dp_pc # "idle"
    /\ dp_lock = "free"
    /\ dp_main < MaxMainCalls
    /\ dp_lock' = "main"
    /\ dp_before' = dp_stats
    /\ UNCHANGED <<dp_pc, dp_stop, dp_main, dp_stats, dp_calls, dp_calls_at_stop, dp_last>>
    /\ UNCHANGED notDisplay

\* the tracker method changes the state and leaves the lock
DisplayMainUnlock ==
    /\ dp_lock = "main"
    /\ dp_stats' = dp_stats + 1
    /\ dp_main' = dp_main + 1
    /\ dp_lock' = "free"
    /\ dp_last' = "main"
    /\ UNCHANGED <<dp_pc, dp_stop, dp_calls, dp_calls_at_stop, dp_before>>
    /\ UNCHANGED notDisplay

\* run_conversion's finally block: progress_thread.stop()
DisplayStop ==
    /\ dp_pc # "idle"
    /\ ~dp_stop
    /\ dp_lock # "main"
    /\ dp_stop' = TRUE
    /\ dp_calls_at_stop' = dp_calls
    /\ UNCHANGED <<dp_pc, dp_lock, dp_main, dp_stats, dp_calls, dp_last, dp_before>>
    /\ UNCHANGED notDisplay

DisplayThreadStep == DisplayWait \/ DisplayLock \/ DisplayPrint

NextDisplay ==
    \/ DisplayWait
    \/ DisplayLock
    \/ DisplayPrint
    \/ DisplayMainLock
    \/ DisplayMainUnlock
    \/ DisplayStop

\* C21: once stop() has been called the thread starts no display_progress call (a call whose
\* wait had already returned goes on), display_progress leaves the tracker state as it found
\* it, and the thread terminates
C21_StopEndsDisplay ==
    /\ [](dp_stop => dp_calls = dp_calls_at_stop)
    /\ [](dp_last = "display" => dp_stats = dp_before)
    /\ (dp_stop ~> dp_pc = "terminated")

\* C21 witness: after two tracker changes and two display_progress calls, the second made
\* when both changes were in, stop() was called and the thread has terminated
C21_Witness ==
    /\ dp_pc = "terminated"
    /\ dp_stop
    /\ dp_last = "display"
    /\ dp_calls = 2
    /\ dp_main = 2
    /\ dp_before = 2

-----------------------------------------------------------------------------
(***************************************************************************)
(* safe_close_database and close_access, called in any order with a        *)
(* database opened in between.  Whether the driver's CloseCurrentDatabase  *)
(* or Quit faults is an input of the call.                                 *)
(***************************************************************************)
MaxCloseCalls == 3

\* A plausible slip: no try/except around CloseCurrentDatabase
safe_close_raises_unguarded(app, closeOk) == app # "none" /\ ~closeOk

\* safe_close_database: whether an exception leaves the method
safe_close_raises(app, closeOk) == FALSE

CloseCall(op, ok, app_after, db_after) ==
    [op |-> op, app_before |-> sc_app, db_before |-> sc_db, ok |-> ok,
     app_after |-> app_after, db_after |-> db_after]

InitClose ==
    /\ sc_pc = "running"
    /\ sc_app \in {"running", "none"}
    /\ sc_db \in (IF sc_app = "running" THEN {"none", "open"} ELSE {"none"})
    /\ sc_log = <<>>

IdleClose ==
    /\ sc_pc = "idle"
    /\ sc_app = "none"
    /\ sc_db = "none"
    /\ sc_log = <<>>

\* safe_close_database
SafeCloseCall ==
    /\ sc_pc = "running"
    /\ Len(sc_log) < MaxCloseCalls
    /\ \E closeOk \in BOOLEAN :
        LET db1 == AfterSafeClose(sc_app, sc_db, closeOk) IN
        /\ sc_db' = db1
        /\ sc_log' = Append(sc_log, CloseCall("safe_close_database", closeOk, sc_app, db1))
        /\ sc_pc' = IF safe_close_raises(sc_app, closeOk) THEN "crashed" ELSE "running"
    /\ UNCHANGED sc_app
    /\ UNCHANGED notClose

\* close_access: safe_close_database, Quit, access_app = None; a fault of Quit is
\* swallowed and the attribute is cleared all the same
CloseAccessCall ==
    /\ sc_pc = "running"
    /\ Len(sc_log) < MaxCloseCalls
    /\ \E closeOk \in BOOLEAN, quitOk \in BOOLEAN :
        /\ sc_app' = "none"
        /\ sc_db' = "none"
        /\ sc_log' = Append(sc_log, CloseCall("close_access", closeOk /\ quitOk, "none", "none"))
    /\ UNCHANGED sc_pc
    /\ UNCHANGED notClose

\* the caller goes on: start_access if there is no application, OpenCurrentDatabase
CloseReopen ==
    /\ sc_pc = "running"
    /\ sc_db = "none"
    /\ sc_app' = "running"
    /\ sc_db' = "open"
    /\ UNCHANGED <<sc_pc, sc_log>>
    /\ UNCHANGED notClose

NextClose == SafeCloseCall \/ CloseAccessCall \/ CloseReopen

SafeCloseCalls == {i \in DOMAIN sc_log : sc_log[i].op = "safe_close_database"}

\* C23 as claimed: no call raises, and every safe_close_database call, the driver's close
\* faulting or not, leaves the state of a single successful close: the application object
\* as it was and no database open
C23_SafeCloseIdempotent ==
    /\ sc_pc # "crashed"
    /\ \A i \in SafeCloseCalls :
          sc_log[i].app_after = sc_log[i].app_before /\ sc_log[i].db_after = "none"

\* C23 amended: no call raises and the application object is left as it was; a call whose
\* close did not fault, or made with no database open, leaves no database open; a call
\* whose close faulted leaves the database as it was
C23_SafeCloseSwallows ==
    /\ sc_pc # "crashed"
    /\ \A i \in SafeCloseCalls :
          LET c == sc_log[i] IN
          /\ c.app_after = c.app_before
          /\ (c.ok \/ c.db_before = "none") => c.db_after = "none"
          /\ ~c.ok => c.db_after = c.db_before

\* C23 witness: a close that faults with a database open, a close that succeeds, and a
\* second close in a row with nothing open
C23_Witness ==
    /\ sc_pc = "running"
    /\ Len(sc_log) = 3
    /\ SafeCloseCalls = {1, 2, 3}
    /\ ~sc_log[1].ok /\ sc_log[1].db_before = "open"
    /\ sc_log[2].ok /\ sc_log[2].db_before = "open"
    /\ sc_log[3].db_before = "none"

-----------------------------------------------------------------------------
(***************************************************************************)
(* export_table_to_csv.  Each strategy is a try block that ends in the     *)
(* test `csv_file.exists() and csv_file.stat().st_size > 0`.  What the     *)
(* driver does in a strategy is an input:                                  *)
(*   ok             the call returns and the file holds the table          *)
(*   raise          the call raises, the file is as it was                 *)
(*   noop           the call returns and nothing was written               *)
(*   raise_partial  the file was opened for writing, rows were written,    *)
(*                  then a call raised                                     *)
(*   empty          the file was opened for writing and nothing written    *)
(*   skip           the strategy does not apply (no identifier field)      *)
(* csv_file is named by the sanitized table name in the database's temp    *)
(* directory, and may be there already from an earlier table.              *)
(***************************************************************************)
ExportOrder == <<"bulk", "capped", "excel", "cursor", "idrange", "quoted">>

StrategyOutcomes(strategy, id_field) ==
    CASE strategy = "cursor" -> {"ok", "raise", "raise_partial"}
      [] strategy = "idrange" -> IF id_field THEN {"ok", "raise", "empty"} ELSE {"skip"}
      [] OTHER -> {"ok", "raise", "noop"}

NoFile == [nonempty |-> FALSE, writer |-> "none"]

\* the count made before the bulk export: above TRANSFER_TEXT_LIMIT an exception is raised
\* to leave the bulk export out, but the exception is raised inside the try block of the
\* count, whose except clause logs it and goes on to TransferText
TRANSFER_TEXT_LIMIT == 50000
BulkTried(record_count) == record_count > TRANSFER_TEXT_LIMIT => TRUE

\* csv_file after the strategy
FileAfter(file, strategy, outcome) ==
    CASE outcome \in {"ok", "raise_partial"} -> [nonempty |-> TRUE, writer |-> strategy]
      [] outcome = "empty" -> NoFile
      [] OTHER -> file

\* the strategy's block reaches `return csv_file`
StrategyWins(file, outcome) == outcome \in {"ok", "noop", "empty"} /\ file.nonempty

\* tables below, at and above each ceiling: TOP_LIMIT of the capped projection, max_rows
\* of the cursor
ExportRows == {30, TOP_LIMIT, TOP_LIMIT + 1, max_rows, max_rows + 1}

\* data rows in csv_file after a strategy that ran to its end
RowsExported(strategy, rows) ==
    CASE strategy = "capped" -> Min(rows, TOP_LIMIT)
      [] strategy = "cursor" -> Min(rows, max_rows)
      [] OTHER -> rows

\* logger.warning("... truncated at ... rows for safety"): only the cursor has one, on
\* row_count >= max_rows; the capped projection logs its ceiling at debug level, always
TruncationWarned(strategy, rows) ==
    strategy = "cursor" /\ RowsExported(strategy, rows) >= max_rows

InitExport ==
    /\ ex_pc = "trying"
    /\ ex_id_field \in BOOLEAN
    /\ ex_file \in {NoFile, [nonempty |-> TRUE, writer |-> "earlier_table"]}
    /\ ex_idx = 1
    /\ ex_log = <<>>
    /\ ex_result = "pending"
    /\ ex_rows \in ExportRows
    /\ ex_exported = 0
    /\ ex_warned = FALSE

IdleExport ==
    /\ ex_pc = "idle"
    /\ ex_id_field = FALSE
    /\ ex_file = NoFile
    /\ ex_idx = 0
    /\ ex_log = <<>>
    /\ ex_result = "pending"
    /\ ex_rows = 0
    /\ ex_exported = 0
    /\ ex_warned = FALSE

\* one strategy block; after the last one `return None`
ExportStrategy ==
    /\ ex_pc = "trying"
    /\ LET strategy == ExportOrder[ex_idx] IN
       \E outcome \in (IF strategy = "bulk" /\ ~BulkTried(ex_rows) THEN {"skip"}
                       ELSE StrategyOutcomes(strategy, ex_id_field)) :
          LET file == FileAfter(ex_file, strategy, outcome) IN
          /\ ex_file' = file
          /\ ex_log' = Append(ex_log, [strategy |-> strategy, outcome |-> outcome])
          /\ ex_exported' = IF outcome = "ok" THEN RowsExported(strategy, ex_rows)
                             ELSE ex_exported
          /\ ex_warned' = (ex_warned \/ (outcome = "ok" /\ TruncationWarned(strategy, ex_rows)))
          /\ IF StrategyWins(file, outcome)
             THEN ex_result' = "file" /\ ex_pc' = "returned" /\ UNCHANGED ex_idx
             ELSE IF ex_idx = Len(ExportOrder)
             THEN ex_result' = "none" /\ ex_pc' = "returned" /\ UNCHANGED ex_idx
             ELSE ex_idx' = ex_idx + 1 /\ UNCHANGED <<ex_pc, ex_result>>
    /\ UNCHANGED <<ex_id_field, ex_rows>>
    /\ UNCHANGED notExport

NextExport == ExportStrategy

StrategiesRun == [i \in DOMAIN ex_log |-> ex_log[i].strategy]
IsPrefix(s, t) == Len(s) <= Len(t) /\ s = SubSeq(t, 1, Len(s))
LastRun == ex_log[Len(ex_log)]

\* C24: the strategies are run in their fixed order; none is run after one that succeeded;
\* failure is reported only when every strategy has been run and none succeeded; the file
\* returned was written by the strategy that returned it
C24_FirstSuccessWins ==
    /\ IsPrefix(StrategiesRun, ExportOrder)
    /\ \A i \in 1..(Len(ex_log) - 1) : ex_log[i].outcome # "ok"
    /\ ex_result = "none" =>
          /\ StrategiesRun = ExportOrder
          /\ \A i \in DOMAIN ex_log : ex_log[i].outcome # "ok"
    /\ ex_result = "file" =>
          /\ LastRun.outcome = "ok"
          /\ ex_file.writer = LastRun.strategy

\* C35: for a table of more than 50,000 rows the bulk TransferText export is not run
C35_LargeTableSkipsBulk ==
    ex_rows > TRANSFER_TEXT_LIMIT =>
        \A i \in DOMAIN ex_log : ~(ex_log[i].strategy = "bulk" /\ ex_log[i].outcome # "skip")

\* C26: a file written to its end by the capped projection or the cursor with fewer rows
\* than the table holds comes with a truncation warning, and a file holding every row of
\* the table comes with none
C26_TruncationWarned ==
    (ex_result = "file" /\ LastRun.outcome = "ok") =>
        /\ (LastRun.strategy \in {"capped", "cursor"} /\ ex_exported < ex_rows) => ex_warned
        /\ ex_exported = ex_rows => ~ex_warned

-----------------------------------------------------------------------------
(***************************************************************************)
(* The temporary directory of staged CSV files.  Each of                   *)
(* AccessCOMConverter.convert_database, LegacyAccessConverter              *)
(* .convert_via_com and .convert_via_mdb_tools creates one directory per   *)
(* database with tempfile.mkdtemp and writes one CSV file per table into   *)
(* it.  An interrupt (KeyboardInterrupt, or SystemExit raised by the       *)
(* signal handler) is not an Exception and passes every except clause.     *)
(***************************************************************************)
MaxStageTables == 3
StageVariants == {"com_pipeline", "legacy_com", "legacy_mdb"}
NoDir == [exists |-> FALSE, files |-> 0]

\* tempfile.mkdtemp
mkdtemp == [exists |-> TRUE, files |-> 0]

\* what a table leaves in the directory: TransferText or mdb-export wrote the file, or
\* failed before creating it; no variant deletes the file after the import
TableOutcomes == {"written", "not_written"}
AfterTable(dir, outcome) ==
    IF outcome = "written" THEN [dir EXCEPT !.files = @ + 1] ELSE dir

\* the end of the database after its last table: convert_database calls
\* shutil.rmtree(temp_dir, ignore_errors=True); the two legacy variants return True
AfterLastTable(variant, dir) == IF variant = "com_pipeline" THEN NoDir ELSE dir

Leak(dir) == IF dir.exists THEN 1 ELSE 0

InitStaging ==
    /\ st_pc = "start"
    /\ st_variant \in StageVariants
    /\ st_db = 1
    /\ st_left = 0
    /\ st_dir = NoDir
    /\ st_end = "none"
    /\ st_leaked = 0

IdleStaging ==
    /\ st_pc = "idle"
    /\ st_variant = "com_pipeline"
    /\ st_db = 0
    /\ st_left = 0
    /\ st_dir = NoDir
    /\ st_end = "none"
    /\ st_leaked = 0

\* the database is open, its tables are listed, the directory is created
StageBegin ==
    /\ st_pc = "start"
    /\ st_dir' = mkdtemp
    /\ st_left' \in 0..MaxStageTables
    /\ st_pc' = "staging"
    /\ UNCHANGED <<st_variant, st_db, st_end, st_leaked>>
    /\ UNCHANGED notStaging

\* one table of the loop: export to the directory, import; its errors are caught
StageTable ==
    /\ st_pc = "staging" /\ st_left > 0
    /\ \E outcome \in TableOutcomes : st_dir' = AfterTable(st_dir, outcome)
    /\ st_left' = st_left - 1
    /\ UNCHANGED <<st_pc, st_variant, st_db, st_end, st_leaked>>
    /\ UNCHANGED notStaging

\* after the last table
StageEnd ==
    /\ st_pc = "staging" /\ st_left = 0
    /\ st_dir' = AfterLastTable(st_variant, st_dir)
    /\ st_end' = "success"
    /\ st_leaked' = st_leaked + Leak(st_dir')
    /\ st_pc' = "ended"
    /\ UNCHANGED <<st_variant, st_db, st_left>>
    /\ UNCHANGED notStaging

\* convert_via_com: CloseCurrentDatabase or Quit raises in the finally clause and the
\* outer except clause returns False
StageFail ==
    /\ st_pc = "staging" /\ st_left = 0
    /\ st_variant = "legacy_com"
    /\ st_end' = "failure"
    /\ st_leaked' = st_leaked + Leak(st_dir)
    /\ st_pc' = "ended"
    /\ UNCHANGED <<st_variant, st_db, st_left, st_dir>>
    /\ UNCHANGED notStaging

\* the operator interrupts the run while the database is being converted
StageInterrupt ==
    /\ st_pc = "staging"
    /\ st_end' = "interrupt"
    /\ st_leaked' = st_leaked + Leak(st_dir)
    /\ st_pc' = "interrupted"
    /\ UNCHANGED <<st_variant, st_db, st_left, st_dir>>
    /\ UNCHANGED notStaging

\* the run goes on with the next database
StageNext ==
    /\ st_pc = "ended" /\ st_db < NumDatabases
    /\ st_db' = st_db + 1
    /\ st_dir' = NoDir
    /\ st_left' = 0
    /\ st_pc' = "start"
    /\ UNCHANGED <<st_variant, st_end, st_leaked>>
    /\ UNCHANGED notStaging

NextStaging ==
    StageBegin \/ StageTable \/ StageEnd \/ StageFail \/ StageInterrupt \/ StageNext

\* C29: when the processing of a database has ended, by success, failure or interrupt,
\* its temporary directory is gone, and none is left from the databases before it
C29_StagingEphemeral ==
    st_pc \in {"ended", "interrupted"} => (~st_dir.exists /\ st_leaked = 0)

-----------------------------------------------------------------------------
(***************************************************************************)
(* get_table_list.  Both converters try four enumeration strategies, each  *)
(* in its own try block, and all four append to the one list `tables`      *)
(* created before the first.  What a strategy's source yields is an        *)
(* input: the catalog or nothing, and the number of names delivered        *)
(* before the enumeration raises, if it does.                              *)
(***************************************************************************)
NumListStrategies == 4
Catalog == <<"Orders", "~TMPCLP", "MSysObjects">>

\* the prefix tests of the code: startswith("MSys"), startswith("~"), startswith("TEMP")
NameClass(name) ==
    CASE name = "MSysObjects" -> "msys"
      [] name = "~TMPCLP" -> "tilde"
      [] OTHER -> "user"

\* the name classes a strategy leaves out, by its tests or by the text of its query
Excluded(variant, strategy) ==
    IF variant = "com"
    THEN IF strategy = 2 THEN {"msys", "tilde", "temp"} ELSE {"msys", "tilde"}
    ELSE IF strategy \in {1, 3} THEN {"msys"} ELSE {"msys", "tilde"}

\* the names a strategy appends for the names its source delivers
RECURSIVE Kept(_, _, _)
Kept(variant, strategy, names) ==
    IF names = <<>> THEN <<>>
    ELSE (IF NameClass(Head(names)) \in Excluded(variant, strategy)
          THEN <<>> ELSE <<Head(names)>>) \o Kept(variant, strategy, Tail(names))

\* the names delivered before the enumeration ends or raises; a query fetched with
\* fetchall raises before any name or not at all
Deliveries(variant, strategy) ==
    LET stepwise == (variant = "com" /\ strategy # 4) \/ (variant = "odbc" /\ strategy = 1)
    IN {[names |-> <<>>, outcome |-> "ok"], [names |-> Catalog, outcome |-> "ok"],
        [names |-> <<>>, outcome |-> "raise"]}
       \cup (IF stepwise
             THEN {[names |-> SubSeq(Catalog, 1, k), outcome |-> "raise"] :
                     k \in 1..(Len(Catalog) - 1)}
             ELSE {})

InitList ==
    /\ gl_pc = "trying"
    /\ gl_variant \in {"com", "odbc"}
    /\ gl_idx = 1
    /\ gl_tables = <<>>
    /\ gl_log = <<>>
    /\ gl_result = <<>>

IdleList ==
    /\ gl_pc = "idle"
    /\ gl_variant = "com"
    /\ gl_idx = 0
    /\ gl_tables = <<>>
    /\ gl_log = <<>>
    /\ gl_result = <<>>

\* one strategy block; after the last one `return []`
ListStrategy ==
    /\ gl_pc = "trying"
    /\ \E dl \in Deliveries(gl_variant, gl_idx) :
         LET tables == gl_tables \o Kept(gl_variant, gl_idx, dl.names) IN
         /\ gl_tables' = tables
         /\ gl_log' = Append(gl_log, [strategy |-> gl_idx, names |-> dl.names,
                                      outcome |-> dl.outcome])
         /\ IF dl.outcome = "ok" /\ tables # <<>>
            THEN gl_result' = tables /\ gl_pc' = "returned" /\ UNCHANGED gl_idx
            ELSE IF gl_idx = NumListStrategies
            THEN gl_result' = <<>> /\ gl_pc' = "returned" /\ UNCHANGED gl_idx
            ELSE gl_idx' = gl_idx + 1 /\ UNCHANGED <<gl_pc, gl_result>>
    /\ UNCHANGED gl_variant
    /\ UNCHANGED notList

NextList == ListStrategy

UserNames(names) == Kept("com", 1, names)
LastListed == gl_log[Len(gl_log)]

\* C30: the strategies run in order; the list returned holds the user tables of the last
\* strategy run, which ended without raising, and nothing else: no name twice, no system
\* table, no name of an earlier strategy
C30_FirstYieldWins ==
    gl_pc = "returned" =>
        /\ \A i \in DOMAIN gl_log : gl_log[i].strategy = i
        /\ gl_result # <<>> =>
              /\ LastListed.outcome = "ok"
              /\ gl_result = UserNames(LastListed.names)
              /\ \A i, j \in DOMAIN gl_result : gl_result[i] = gl_result[j] => i = j
              /\ \A i \in DOMAIN gl_result : NameClass(gl_result[i]) = "user"

-----------------------------------------------------------------------------
(***************************************************************************)
(* The row-cursor export (Method 3 of export_table_to_csv): rows are read  *)
(* from the recordset into a chunk, the chunk is written with writerows,   *)
(* and the tracker is told the running row count.  Rows are numbered in    *)
(* cursor order.                                                           *)
(***************************************************************************)
chunk_size == 1000
CursorRows == {0, 1, chunk_size - 1, chunk_size, chunk_size + 1, 2500,
               max_rows - 1, max_rows, max_rows + 1}
NoChunk == [first |-> 0, last |-> 0]

\* while not rs.EOF and row_count < max_rows
CursorMore(row_count, rows) == row_count < rows /\ row_count < max_rows

\* A plausible slip: the inner loop runs once too often
ChunkEnd_one_more(row_count, rows) == Min(Min(row_count + chunk_size + 1, rows), max_rows)

\* the inner loop: up to chunk_size rows, ended by EOF or by the ceiling
ChunkEnd(row_count, rows) == Min(Min(row_count + chunk_size, rows), max_rows)

InitCursor ==
    /\ cu_pc = "loop"
    /\ cu_rows \in CursorRows
    /\ cu_row_count = 0
    /\ cu_prev = 0
    /\ cu_chunk = NoChunk
    /\ cu_chunks = 0
    /\ cu_processed = 0

IdleCursor ==
    /\ cu_pc = "idle"
    /\ cu_rows = 0
    /\ cu_row_count = 0
    /\ cu_prev = 0
    /\ cu_chunk = NoChunk
    /\ cu_chunks = 0
    /\ cu_processed = 0

\* one pass of the while loop: read a chunk, writerows, update_table_progress
CursorChunk ==
    /\ cu_pc = "loop" /\ CursorMore(cu_row_count, cu_rows)
    /\ LET last == ChunkEnd(cu_row_count, cu_rows) IN
       /\ cu_chunk' = [first |-> cu_row_count + 1, last |-> last]
       /\ cu_row_count' = last
       /\ cu_processed' = last
    /\ cu_prev' = cu_row_count
    /\ cu_chunks' = cu_chunks + 1
    /\ UNCHANGED <<cu_pc, cu_rows>>
    /\ UNCHANGED notCursor

\* rs.MoveNext raises while a chunk is being read: the chunk is not written, the
\* strategy's except clause takes over
CursorRaise ==
    /\ cu_pc = "loop" /\ CursorMore(cu_row_count, cu_rows)
    /\ cu_pc' = "raised"
    /\ UNCHANGED <<cu_rows, cu_row_count, cu_prev, cu_chunk, cu_chunks, cu_processed>>
    /\ UNCHANGED notCursor

\* the loop ends at EOF or at the ceiling
CursorEnd ==
    /\ cu_pc = "loop" /\ ~CursorMore(cu_row_count, cu_rows)
    /\ cu_pc' = "done"
    /\ UNCHANGED <<cu_rows, cu_row_count, cu_prev, cu_chunk, cu_chunks, cu_processed>>
    /\ UNCHANGED notCursor

NextCursor == CursorChunk \/ CursorRaise \/ CursorEnd

\* C32: a chunk has at most chunk_size rows and starts right after the rows written before
\* it; the row count never passes max_rows; the tracker's counter equals the rows written
\* after every chunk and has not gone down; at the end of the loop every row up to the
\* ceiling has been written
C32_CursorChunks ==
    /\ cu_chunk.last - cu_chunk.first < chunk_size
    /\ cu_row_count <= max_rows
    /\ cu_chunks > 0 => (cu_chunk.first = cu_prev + 1 /\ cu_chunk.last = cu_row_count)
    /\ cu_processed = cu_row_count
    /\ cu_processed >= cu_prev
    /\ cu_pc = "done" => cu_row_count = Min(cu_rows, max_rows)

\* C32 witness: a table one row above the ceiling, exported up to the ceiling in 500 chunks
C32_Witness ==
    /\ cu_pc = "done"
    /\ cu_rows = max_rows + 1
    /\ cu_row_count = max_rows
    /\ cu_chunks = 500
    /\ cu_chunk = [first |-> max_rows - chunk_size + 1, last |-> max_rows]

-----------------------------------------------------------------------------
(***************************************************************************)
(* The identifier-range export (Method 4 of export_table_to_csv).  Each    *)
(* batch is SELECT TOP batch_size ... ORDER BY [id], with WHERE [id] >     *)
(* offset once offset > 0; offset becomes the last non-null key of the     *)
(* batch.  The loop ends on an empty batch, on a batch shorter than        *)
(* batch_size, or on a batch that raises.  The batch size is scaled down;  *)
(* TOP returns the rows tied with its last row as well, as Access does.    *)
(***************************************************************************)
IdBatchSize == 2
MaxIdRows == 3
MaxIdBatches == 4
NullKey == 0 - 9
IdKeys == {NullKey, 0 - 1, 0, 1, 2}

\* tables in the order ORDER BY gives them: nulls first, then ascending keys
IdTables ==
    UNION {{t \in [1..n -> IdKeys] : \A i \in 1..(n - 1) : t[i] <= t[i + 1]} :
             n \in 0..MaxIdRows}

\* the rows of one batch query, as indexes in key order
BatchQuery(table, offset) ==
    LET rows == IF offset > 0
                THEN {i \in DOMAIN table : table[i] # NullKey /\ table[i] > offset}
                ELSE DOMAIN table
        top == {i \in rows : Cardinality({j \in rows : j < i}) < IdBatchSize}
        ties == {i \in rows : \E j \in top : table[i] = table[j]}
    IN top \cup ties

\* last_id after the batch: the key of its last row that is not null, else the offset
LastId(table, batch, offset) ==
    LET keyed == {i \in batch : table[i] # NullKey} IN
    IF keyed = {} THEN offset
    ELSE table[CHOOSE i \in keyed : \A j \in keyed : j <= i]

RECURSIVE InOrder(_)
\* the members of a set of indexes as an ascending sequence
InOrder(S) ==
    IF S = {} THEN <<>>
    ELSE LET m == CHOOSE i \in S : \A j \in S : i <= j IN <<m>> \o InOrder(S \ {m})

\* the test after the loop: csv_file.exists() and st_size > 0; rows or the header line
\* are in the file once a batch has been written
IdRangeResult(written) == IF written # <<>> THEN "file" ELSE "none"

InitIdRange ==
    /\ ir_pc = "loop"
    /\ ir_table \in IdTables
    /\ ir_offset = 0
    /\ ir_written = <<>>
    /\ ir_batches = 0
    /\ ir_result = "pending"

IdleIdRange ==
    /\ ir_pc = "idle"
    /\ ir_table = <<>>
    /\ ir_offset = 0
    /\ ir_written = <<>>
    /\ ir_batches = 0
    /\ ir_result = "pending"

\* one pass of `while True`: the batch query, its rows written, the next offset
IdBatch ==
    /\ ir_pc = "loop" /\ ir_batches < MaxIdBatches
    /\ LET batch == BatchQuery(ir_table, ir_offset) IN
       /\ ir_written' = ir_written \o InOrder(batch)
       /\ ir_offset' = IF batch = {} THEN ir_offset ELSE LastId(ir_table, batch, ir_offset)
       /\ IF Cardinality(batch) < IdBatchSize
          THEN ir_pc' = "done" /\ ir_result' = IdRangeResult(ir_written')
          ELSE UNCHANGED <<ir_pc, ir_result>>
    /\ ir_batches' = ir_batches + 1
    /\ UNCHANGED ir_table
    /\ UNCHANGED notIdRange

\* the batch query raises: the warning is logged and the loop is left
IdBatchRaise ==
    /\ ir_pc = "loop" /\ ir_batches < MaxIdBatches
    /\ ir_pc' = "done"
    /\ ir_result' = IdRangeResult(ir_written)
    /\ ir_batches' = ir_batches + 1
    /\ UNCHANGED <<ir_table, ir_offset, ir_written>>
    /\ UNCHANGED notIdRange

NextIdRange == IdBatch \/ IdBatchRaise

Occurrences(seq, x) == Cardinality({i \in DOMAIN seq : seq[i] = x})

\* C33: no row is written twice, and when the export returns the file every row of the
\* table has been written exactly once
C33_IdRangeExactlyOnce ==
    /\ \A r \in DOMAIN ir_table : Occurrences(ir_written, r) <= 1
    /\ ir_result = "file" => \A r \in DOMAIN ir_table : Occurrences(ir_written, r) = 1

-----------------------------------------------------------------------------
(***************************************************************************)
(* get_table_size_estimates.  One row-count query per table, each in its *)
(* own try block.  A count is "ok", raises with a message holding          *)
(* 'timeout' or 'large' ("timeout"), raises otherwise ("error"), or        *)
(* returns its number after more than five seconds ("slow").               *)
(***************************************************************************)
MaxEstTables == 2
EstimateNames == {"Orders", "Users"}
EstimateCounts == {50, LARGE_TABLE_ROWS}
EstimateOutcomes == CountOutcomes \cup {"slow"}
EstimateInputs == UNION {[1..n -> EstimateNames] : n \in 0..MaxEstTables}

InitEstimate ==
    /\ es_pc = "loop"
    /\ es_tables \in EstimateInputs
    /\ es_idx = 1
    /\ es_sizes = <<>>
    /\ es_log = <<>>

IdleEstimate ==
    /\ es_pc = "idle"
    /\ es_tables = <<>>
    /\ es_idx = 0
    /\ es_sizes = <<>>
    /\ es_log = <<>>

\* CurrentDb() raises before the loop: every table gets the fallback estimate
EstimateNoDb ==
    /\ es_pc = "loop" /\ es_idx = 1
    /\ LET fill[i \in 0..Len(es_tables)] ==
               IF i = 0 THEN <<>> ELSE DictSet(fill[i - 1], es_tables[i], FALLBACK_ESTIMATE)
       IN es_sizes' = fill[Len(es_tables)]
    /\ es_log' = [i \in DOMAIN es_tables |->
                    [name |-> es_tables[i], outcome |-> "error", count |-> 0]]
    /\ es_pc' = "returned"
    /\ UNCHANGED <<es_tables, es_idx>>
    /\ UNCHANGED notEstimate

\* one pass of the loop: the count query of one table and what is made of it
EstimateTable ==
    /\ es_pc = "loop" /\ es_idx <= Len(es_tables)
    /\ \E outcome \in EstimateOutcomes, n \in EstimateCounts :
         /\ es_sizes' = DictSet(es_sizes, es_tables[es_idx], Estimate(n, outcome))
         /\ es_log' = Append(es_log, [name |-> es_tables[es_idx], outcome |-> outcome,
                                      count |-> n])
    /\ es_idx' = es_idx + 1
    /\ UNCHANGED <<es_pc, es_tables>>
    /\ UNCHANGED notEstimate

\* return table_sizes
EstimateReturn ==
    /\ es_pc = "loop" /\ es_idx > Len(es_tables)
    /\ es_pc' = "returned"
    /\ UNCHANGED <<es_tables, es_idx, es_sizes, es_log>>
    /\ UNCHANGED notEstimate

NextEstimate == EstimateNoDb \/ EstimateTable \/ EstimateReturn

\* the estimate the rules give a count: its number, 1,000,000 when it timed out or took
\* longer than the time budget, 1000 when it failed otherwise
ExpectedEstimate(entry) ==
    CASE entry.outcome = "ok" -> entry.count
      [] entry.outcome \in {"timeout", "slow"} -> TIMEOUT_ESTIMATE
      [] OTHER -> FALLBACK_ESTIMATE

\* C34: the dict returned has one estimate for every name given and for no other; every
\* table was counted whatever the counts before it did; the estimate of a name is the one
\* the rules give its last count
C34_OneEstimatePerTable ==
    es_pc = "returned" =>
        /\ {es_sizes[i][1] : i \in DOMAIN es_sizes} = {es_tables[i] : i \in DOMAIN es_tables}
        /\ \A i, j \in DOMAIN es_sizes : es_sizes[i][1] = es_sizes[j][1] => i = j
        /\ Len(es_log) = Len(es_tables)
        /\ \A i \in DOMAIN es_log :
              /\ es_log[i].name = es_tables[i]
              /\ (\A j \in DOMAIN es_log : j > i => es_log[j].name # es_log[i].name) =>
                    \E k \in DOMAIN es_sizes :
                        es_sizes[k] = <<es_log[i].name, ExpectedEstimate(es_log[i])>>

-----------------------------------------------------------------------------
(***************************************************************************)
(* _process_single_table, statement by statement, for the tables of one    *)
(* database: start_table, then inside the try block the decision, the      *)
(* export and the import, each followed by complete_table on the paths     *)
(* that end there; the except clause completes the table as failed.        *)
(***************************************************************************)
ProcOrders == {<<>>, <<"Orders">>, <<"Orders", "Users">>, <<"Users", "Orders">>}
ProcEntries == {AbsentTable, [exists |-> TRUE, rows |-> PriorTargetRows]}
ProcRecords == {0, 50, 500, 5000}

ProcCall(op, name, status) == [op |-> op, name |-> name, status |-> status]

\* complete_table on the tracker
ProcComplete(name, rows, status) ==
    /\ pt_stats' = complete_table_stats(pt_stats, rows, status)
    /\ pt_progress' = complete_table_progress(pt_progress, name, rows, status)
    /\ pt_log' = Append(pt_log, ProcCall("complete_table", name, status))
    /\ pt_pc' = "next"
    /\ pt_idx' = pt_idx + 1

\* A plausible slip: a failed export returns without completing the table
export_failure_status_forgotten(csv_file) == IF csv_file THEN "continue" ELSE "return"

\* `if not csv_file`: the table is completed as failed
export_failure_status(csv_file) == IF csv_file THEN "continue" ELSE "failed"

\* the status after the import
import_status(records, action) ==
    IF records > 0 THEN (IF action = "update" THEN "updated" ELSE "completed") ELSE "failed"

InitTable ==
    /\ pt_pc = "next"
    /\ pt_order \in ProcOrders
    /\ pt_idx = 1
    /\ pt_action = "none"
    /\ pt_stats = InitStats
    /\ pt_progress = [n \in TrackNames |-> NoProgress]
    /\ pt_log = <<>>

IdleTable ==
    /\ pt_pc = "idle"
    /\ pt_order = <<>>
    /\ pt_idx = 0
    /\ pt_action = "none"
    /\ pt_stats = InitStats
    /\ pt_progress = <<>>
    /\ pt_log = <<>>

\* sanitize_name, then stats_tracker.start_table
ProcStart ==
    /\ pt_pc = "next" /\ pt_idx <= Len(pt_order)
    /\ LET name == pt_order[pt_idx] IN
       /\ pt_stats' = start_table_stats(pt_stats, name)
       /\ pt_progress' = start_table_progress(pt_progress, name, 1)
       /\ pt_log' = Append(pt_log, ProcCall("start_table", name, ""))
    /\ pt_pc' = "started"
    /\ UNCHANGED <<pt_order, pt_idx, pt_action>>
    /\ UNCHANGED notTable

\* should_update_table; 'skip' completes the table as skipped
ProcDecide ==
    /\ pt_pc = "started"
    /\ \E entry \in ProcEntries, estimated_size \in ProcRecords :
         LET action == should_update_table(entry, estimated_size) IN
         /\ pt_action' = action
         /\ IF action = "skip"
            THEN ProcComplete(pt_order[pt_idx], estimated_size, "skipped")
            ELSE /\ pt_pc' = "decided"
                 /\ UNCHANGED <<pt_idx, pt_stats, pt_progress, pt_log>>
    /\ UNCHANGED pt_order
    /\ UNCHANGED notTable

\* export_table_to_csv returns a file or None
ProcExport ==
    /\ pt_pc = "decided"
    /\ \E csv_file \in BOOLEAN :
         LET status == export_failure_status(csv_file) IN
         CASE status = "continue" ->
                /\ pt_pc' = "exported"
                /\ UNCHANGED <<pt_idx, pt_stats, pt_progress, pt_log>>
           [] status = "return" ->
                /\ pt_pc' = "next"
                /\ pt_idx' = pt_idx + 1
                /\ UNCHANGED <<pt_stats, pt_progress, pt_log>>
           [] OTHER -> ProcComplete(pt_order[pt_idx], 0, status)
    /\ UNCHANGED <<pt_order, pt_action>>
    /\ UNCHANGED notTable

\* import_csv_to_mysql returns the number of records, 0 on failure
ProcImport ==
    /\ pt_pc = "exported"
    /\ \E records \in ProcRecords :
         ProcComplete(pt_order[pt_idx], records, import_status(records, pt_action))
    /\ UNCHANGED <<pt_order, pt_action>>
    /\ UNCHANGED notTable

\* an exception inside the try block, before any complete_table: the except clause
ProcExcept ==
    /\ pt_pc \in {"started", "decided", "exported"}
    /\ ProcComplete(pt_order[pt_idx], 0, "failed")
    /\ UNCHANGED <<pt_order, pt_action>>
    /\ UNCHANGED notTable

\* SIGINT or SIGTERM while a table is processed: signal_handler ends the process with
\* sys.exit, which no `except Exception` catches
ProcInterrupt ==
    /\ pt_pc \in {"started", "decided", "exported"}
    /\ pt_pc' = "interrupted"
    /\ UNCHANGED <<pt_order, pt_idx, pt_action, pt_stats, pt_progress, pt_log>>
    /\ UNCHANGED notTable

\* the loops over the tables have ended
ProcDone ==
    /\ pt_pc = "next" /\ pt_idx > Len(pt_order)
    /\ pt_pc' = "done"
    /\ UNCHANGED <<pt_order, pt_idx, pt_action, pt_stats, pt_progress, pt_log>>
    /\ UNCHANGED notTable

NextTable ==
    ProcStart \/ ProcDecide \/ ProcExport \/ ProcImport \/ ProcExcept \/ ProcInterrupt
        \/ ProcDone

Completes == {i \in DOMAIN pt_log : pt_log[i].op = "complete_table"}

\* C38: the tracker calls alternate start_table and complete_table, table by table in
\* processing order, each complete_table with a terminal status for the table started
\* before it; the four table counters together count the complete_table calls; between
\* tables and at the end no table is in status 'processing' and every table handed over
\* has been started and completed once
C38_OneStartOneComplete ==
    pt_pc # "idle" =>
        /\ \A i \in DOMAIN pt_log :
              /\ pt_log[i].name = pt_order[(i + 1) \div 2]
              /\ i % 2 = 1 => pt_log[i].op = "start_table"
              /\ i % 2 = 0 => (/\ pt_log[i].op = "complete_table"
                               /\ pt_log[i].status \in TerminalStatus)
        /\ TableCounters(pt_stats) = Cardinality(Completes)
        /\ pt_pc \in {"next", "done"} =>
              /\ Len(pt_log) = 2 * (pt_idx - 1)
              /\ \A n \in TrackNames : pt_progress[n].status # "processing"
        /\ pt_pc = "done" => TableCounters(pt_stats) = Len(pt_order)

\* C38 witness: a database of two tables, the first failed in its export, the second
\* loaded
C38_Witness ==
    /\ pt_pc = "done"
    /\ Len(pt_order) = 2
    /\ pt_log[2].status = "failed"
    /\ pt_log[4].status = "completed"
    /\ pt_stats.tables_failed = 1
    /\ pt_stats.tables_processed = 1

-----------------------------------------------------------------------------
(***************************************************************************)
(* run_conversion from its first statement to its return or raise, without *)
(* signals: the display thread is started, Access is started, the          *)
(* databases are found and converted one by one, and the finally clause    *)
(* runs on every way out of the try block.  convert_database is taken by   *)
(* the path it follows; a fault of Quit is an input of close_access.       *)
(***************************************************************************)
MaxRunDbs == 3

ConvertPaths == {"open_failed", "empty", "converted", "raised_inside", "raised_before"}
FinallyCalls == <<"stop", "join", "close_access", "display_progress", "save_final_report">>

\* A plausible slip: the except clause of convert_database counts the failure and
\* raises again
convert_database_reraise(path) ==
    CASE path = "open_failed" -> [processed |-> 0, failed |-> 1, raises |-> FALSE]
      [] path \in {"empty", "converted"} -> [processed |-> 1, failed |-> 0, raises |-> FALSE]
      [] path = "raised_inside" -> [processed |-> 0, failed |-> 1, raises |-> TRUE]
      [] OTHER -> [processed |-> 0, failed |-> 0, raises |-> TRUE]

\* convert_database by its path: the complete_database calls it makes and whether an
\* exception leaves it (only one raised before its try block does)
convert_database(path) ==
    CASE path = "open_failed" -> [processed |-> 0, failed |-> 1, raises |-> FALSE]
      [] path \in {"empty", "converted"} -> [processed |-> 1, failed |-> 0, raises |-> FALSE]
      [] path = "raised_inside" -> [processed |-> 0, failed |-> 1, raises |-> FALSE]
      [] OTHER -> [processed |-> 0, failed |-> 0, raises |-> TRUE]

\* close_access: with an application object, Quit; self.access_app is None afterwards
\* whether or not Quit raised
close_access(app, session, quitOk) ==
    IF app = "app"
    THEN [access_app |-> "none", session |-> IF quitOk THEN "quit" ELSE session]
    ELSE [access_app |-> app, session |-> session]

InitFinish ==
    /\ rc_pc = "start"
    /\ rc_found = 0
    /\ rc_paths = <<>>
    /\ rc_counted = <<>>
    /\ rc_stats = [databases_processed |-> 0, databases_failed |-> 0]
    /\ rc_access_app = "none"
    /\ rc_session = "none"
    /\ rc_thread = "none"
    /\ rc_exit = "none"
    /\ rc_log = <<>>

IdleFinish ==
    /\ rc_pc = "idle"
    /\ rc_found = 0
    /\ rc_paths = <<>>
    /\ rc_counted = <<>>
    /\ rc_stats = [databases_processed |-> 0, databases_failed |-> 0]
    /\ rc_access_app = "none"
    /\ rc_session = "none"
    /\ rc_thread = "none"
    /\ rc_exit = "none"
    /\ rc_log = <<>>

\* progress_thread.start(), then start_access: Dispatch may fail, or succeed with the
\* next statement failing, which leaves the application object in place
RcStart ==
    /\ rc_pc = "start"
    /\ rc_thread' = "running"
    /\ \E o \in {"started", "no_dispatch", "no_visible"} :
         /\ rc_access_app' = IF o = "no_dispatch" THEN "none" ELSE "app"
         /\ rc_session' = IF o = "no_dispatch" THEN "none" ELSE "running"
         /\ IF o = "started"
            THEN rc_pc' = "discover" /\ UNCHANGED rc_exit
            ELSE rc_pc' = "finally" /\ rc_exit' = "no_access"
    /\ UNCHANGED <<rc_found, rc_paths, rc_counted, rc_stats, rc_log>>
    /\ UNCHANGED notFinish

\* find_access_databases and the registration loop
RcDiscover ==
    /\ rc_pc = "discover"
    /\ \/ \E n \in 0..MaxRunDbs :
            /\ rc_found' = n
            /\ IF n = 0
               THEN rc_pc' = "finally" /\ rc_exit' = "no_databases"
               ELSE rc_pc' = "convert" /\ UNCHANGED rc_exit
       \/ /\ rc_pc' = "finally"
          /\ rc_exit' = "exception"
          /\ UNCHANGED rc_found
    /\ UNCHANGED <<rc_paths, rc_counted, rc_stats, rc_access_app, rc_session, rc_thread,
                   rc_log>>
    /\ UNCHANGED notFinish

\* One turn of the conversion loop: convert_database, and the except clause of the loop
\* when an exception leaves it; a failed restart inside safe_open_database leaves
\* self.access_app at None
RcConvert ==
    /\ rc_pc = "convert"
    /\ \E path \in ConvertPaths, restart_failed \in BOOLEAN :
         LET r == convert_database(path)
             failed == r.failed + (IF r.raises THEN 1 ELSE 0)
         IN /\ restart_failed => path = "open_failed"
            /\ rc_paths' = Append(rc_paths, path)
            /\ rc_counted' = Append(rc_counted, r.processed + failed)
            /\ rc_stats' = [databases_processed |-> rc_stats.databases_processed + r.processed,
                            databases_failed |-> rc_stats.databases_failed + failed]
            /\ rc_access_app' = IF restart_failed THEN "none" ELSE rc_access_app
            /\ rc_session' = IF restart_failed THEN "quit" ELSE rc_session
    /\ IF Len(rc_paths) + 1 < rc_found
       THEN UNCHANGED <<rc_pc, rc_exit>>
       ELSE rc_pc' = "finally" /\ rc_exit' = "all"
    /\ UNCHANGED <<rc_found, rc_thread, rc_log>>
    /\ UNCHANGED notFinish

\* The finally clause: stop and join the display thread, close_access, display_progress,
\* save_final_report; then the return, or the exception goes on to the caller
RcFinally ==
    /\ rc_pc = "finally"
    /\ \E quitOk \in BOOLEAN :
         LET c == close_access(rc_access_app, rc_session, quitOk) IN
         /\ rc_access_app' = c.access_app
         /\ rc_session' = c.session
    /\ rc_thread' = "stopped"
    /\ rc_log' = rc_log \o FinallyCalls
    /\ rc_pc' = IF rc_exit = "exception" THEN "raised" ELSE "returned"
    /\ UNCHANGED <<rc_found, rc_paths, rc_counted, rc_stats, rc_exit>>
    /\ UNCHANGED notFinish

NextFinish == RcStart \/ RcDiscover \/ RcConvert \/ RcFinally

\* C39: when run_conversion has returned or raised, the finally clause has run once (the
\* display thread stopped, close_access called leaving access_app at None,
\* save_final_report called once) and not before; every database converted so far has
\* been counted once, so databases_processed + databases_failed equals the number of
\* databases converted so far
C39_ExitPathsCleanUp ==
    rc_pc # "idle" =>
        /\ rc_pc \in {"returned", "raised"} =>
              /\ rc_thread = "stopped"
              /\ rc_access_app = "none"
              /\ rc_log = FinallyCalls
        /\ rc_pc \notin {"returned", "raised"} => rc_log = <<>>
        /\ \A d \in DOMAIN rc_counted : rc_counted[d] = 1
        /\ rc_stats.databases_processed + rc_stats.databases_failed = Len(rc_paths)
        /\ Len(rc_paths) <= rc_found

\* C39 witness: all databases processed, one of them through an exception that left
\* convert_database, and the run returned through the finally clause
C39_Witness ==
    /\ rc_pc = "returned"
    /\ rc_exit = "all"
    /\ rc_found = 2
    /\ rc_paths = <<"raised_before", "converted">>
    /\ rc_stats = [databases_processed |-> 1, databases_failed |-> 1]
    /\ rc_log = FinallyCalls

-----------------------------------------------------------------------------
InitSpecSanitize == InitSanitize /\ IdleOpen /\ IdlePipe /\ IdleNull /\ IdleLoad /\ IdleSignal /\ IdleAccess /\ IdleRun /\ IdleTarget /\ IdleTracker /\ IdleAnalyze /\ IdleDisplay /\ IdleClose /\ IdleExport /\ IdleStaging /\ IdleList /\ IdleCursor /\ IdleIdRange /\ IdleEstimate /\ IdleTable /\ IdleFinish
SpecSanitize == InitSpecSanitize /\ [][NextSanitize]_vars

InitSpecOpen == IdleSanitize /\ InitOpen /\ IdlePipe /\ IdleNull /\ IdleLoad /\ IdleSignal /\ IdleAccess /\ IdleRun /\ IdleTarget /\ IdleTracker /\ IdleAnalyze /\ IdleDisplay /\ IdleClose /\ IdleExport /\ IdleStaging /\ IdleList /\ IdleCursor /\ IdleIdRange /\ IdleEstimate /\ IdleTable /\ IdleFinish
SpecOpen == InitSpecOpen /\ [][NextOpen]_vars

InitSpecPipe == IdleSanitize /\ IdleOpen /\ InitPipe /\ IdleNull /\ IdleLoad /\ IdleSignal /\ IdleAccess /\ IdleRun /\ IdleTarget /\ IdleTracker /\ IdleAnalyze /\ IdleDisplay /\ IdleClose /\ IdleExport /\ IdleStaging /\ IdleList /\ IdleCursor /\ IdleIdRange /\ IdleEstimate /\ IdleTable /\ IdleFinish
SpecPipe == InitSpecPipe /\ [][NextPipe]_vars

InitSpecNull == IdleSanitize /\ IdleOpen /\ IdlePipe /\ InitNull /\ IdleLoad /\ IdleSignal /\ IdleAccess /\ IdleRun /\ IdleTarget /\ IdleTracker /\ IdleAnalyze /\ IdleDisplay /\ IdleClose /\ IdleExport /\ IdleStaging /\ IdleList /\ IdleCursor /\ IdleIdRange /\ IdleEstimate /\ IdleTable /\ IdleFinish
SpecNull == InitSpecNull /\ [][NextNull]_vars

InitSpecLoad == IdleSanitize /\ IdleOpen /\ IdlePipe /\ IdleNull /\ InitLoad /\ IdleSignal /\ IdleAccess /\ IdleRun /\ IdleTarget /\ IdleTracker /\ IdleAnalyze /\ IdleDisplay /\ IdleClose /\ IdleExport /\ IdleStaging /\ IdleList /\ IdleCursor /\ IdleIdRange /\ IdleEstimate /\ IdleTable /\ IdleFinish
SpecLoad == InitSpecLoad /\ [][NextLoad]_vars

InitSpecSignal == IdleSanitize /\ IdleOpen /\ IdlePipe /\ IdleNull /\ IdleLoad /\ InitSignal /\ IdleAccess /\ IdleRun /\ IdleTarget /\ IdleTracker /\ IdleAnalyze /\ IdleDisplay /\ IdleClose /\ IdleExport /\ IdleStaging /\ IdleList /\ IdleCursor /\ IdleIdRange /\ IdleEstimate /\ IdleTable /\ IdleFinish
SpecSignal == InitSpecSignal /\ [][NextSignal]_vars

InitSpecAccess == IdleSanitize /\ IdleOpen /\ IdlePipe /\ IdleNull /\ IdleLoad /\ IdleSignal /\ InitAccess /\ IdleRun /\ IdleTarget /\ IdleTracker /\ IdleAnalyze /\ IdleDisplay /\ IdleClose /\ IdleExport /\ IdleStaging /\ IdleList /\ IdleCursor /\ IdleIdRange /\ IdleEstimate /\ IdleTable /\ IdleFinish
SpecAccess == InitSpecAccess /\ [][NextAccess]_vars

InitSpecRun == IdleSanitize /\ IdleOpen /\ IdlePipe /\ IdleNull /\ IdleLoad /\ IdleSignal /\ IdleAccess /\ InitRun /\ IdleTarget /\ IdleTracker /\ IdleAnalyze /\ IdleDisplay /\ IdleClose /\ IdleExport /\ IdleStaging /\ IdleList /\ IdleCursor /\ IdleIdRange /\ IdleEstimate /\ IdleTable /\ IdleFinish
SpecRun == InitSpecRun /\ [][NextRun]_vars

InitSpecTarget == IdleSanitize /\ IdleOpen /\ IdlePipe /\ IdleNull /\ IdleLoad /\ IdleSignal /\ IdleAccess /\ IdleRun /\ InitTarget /\ IdleTracker /\ IdleAnalyze /\ IdleDisplay /\ IdleClose /\ IdleExport /\ IdleStaging /\ IdleList /\ IdleCursor /\ IdleIdRange /\ IdleEstimate /\ IdleTable /\ IdleFinish
SpecTarget == InitSpecTarget /\ [][NextTarget]_vars

InitSpecTracker == IdleSanitize /\ IdleOpen /\ IdlePipe /\ IdleNull /\ IdleLoad /\ IdleSignal /\ IdleAccess /\ IdleRun /\ IdleTarget /\ InitTracker /\ IdleAnalyze /\ IdleDisplay /\ IdleClose /\ IdleExport /\ IdleStaging /\ IdleList /\ IdleCursor /\ IdleIdRange /\ IdleEstimate /\ IdleTable /\ IdleFinish
SpecTracker == InitSpecTracker /\ [][NextTracker]_vars

InitSpecAnalyze == IdleSanitize /\ IdleOpen /\ IdlePipe /\ IdleNull /\ IdleLoad /\ IdleSignal /\ IdleAccess /\ IdleRun /\ IdleTarget /\ IdleTracker /\ InitAnalyze /\ IdleDisplay /\ IdleClose /\ IdleExport /\ IdleStaging /\ IdleList /\ IdleCursor /\ IdleIdRange /\ IdleEstimate /\ IdleTable /\ IdleFinish
SpecAnalyze == InitSpecAnalyze /\ [][NextAnalyze]_vars

InitSpecDisplay == IdleSanitize /\ IdleOpen /\ IdlePipe /\ IdleNull /\ IdleLoad /\ IdleSignal /\ IdleAccess /\ IdleRun /\ IdleTarget /\ IdleTracker /\ IdleAnalyze /\ InitDisplay /\ IdleClose /\ IdleExport /\ IdleStaging /\ IdleList /\ IdleCursor /\ IdleIdRange /\ IdleEstimate /\ IdleTable /\ IdleFinish
SpecDisplay ==
    /\ InitSpecDisplay /\ [][NextDisplay]_vars
    /\ WF_vars(DisplayThreadStep) /\ WF_vars(DisplayMainUnlock)

InitSpecClose == IdleSanitize /\ IdleOpen /\ IdlePipe /\ IdleNull /\ IdleLoad /\ IdleSignal /\ IdleAccess /\ IdleRun /\ IdleTarget /\ IdleTracker /\ IdleAnalyze /\ IdleDisplay /\ InitClose /\ IdleExport /\ IdleStaging /\ IdleList /\ IdleCursor /\ IdleIdRange /\ IdleEstimate /\ IdleTable /\ IdleFinish
SpecClose == InitSpecClose /\ [][NextClose]_vars

InitSpecExport == IdleSanitize /\ IdleOpen /\ IdlePipe /\ IdleNull /\ IdleLoad /\ IdleSignal /\ IdleAccess /\ IdleRun /\ IdleTarget /\ IdleTracker /\ IdleAnalyze /\ IdleDisplay /\ IdleClose /\ InitExport /\ IdleStaging /\ IdleList /\ IdleCursor /\ IdleIdRange /\ IdleEstimate /\ IdleTable /\ IdleFinish
SpecExport == InitSpecExport /\ [][NextExport]_vars

InitSpecStaging == IdleSanitize /\ IdleOpen /\ IdlePipe /\ IdleNull /\ IdleLoad /\ IdleSignal /\ IdleAccess /\ IdleRun /\ IdleTarget /\ IdleTracker /\ IdleAnalyze /\ IdleDisplay /\ IdleClose /\ IdleExport /\ InitStaging /\ IdleList /\ IdleCursor /\ IdleIdRange /\ IdleEstimate /\ IdleTable /\ IdleFinish
SpecStaging == InitSpecStaging /\ [][NextStaging]_vars

InitSpecList == IdleSanitize /\ IdleOpen /\ IdlePipe /\ IdleNull /\ IdleLoad /\ IdleSignal /\ IdleAccess /\ IdleRun /\ IdleTarget /\ IdleTracker /\ IdleAnalyze /\ IdleDisplay /\ IdleClose /\ IdleExport /\ IdleStaging /\ InitList /\ IdleCursor /\ IdleIdRange /\ IdleEstimate /\ IdleTable /\ IdleFinish
SpecList == InitSpecList /\ [][NextList]_vars

InitSpecCursor == IdleSanitize /\ IdleOpen /\ IdlePipe /\ IdleNull /\ IdleLoad /\ IdleSignal /\ IdleAccess /\ IdleRun /\ IdleTarget /\ IdleTracker /\ IdleAnalyze /\ IdleDisplay /\ IdleClose /\ IdleExport /\ IdleStaging /\ IdleList /\ InitCursor /\ IdleIdRange /\ IdleEstimate /\ IdleTable /\ IdleFinish
SpecCursor == InitSpecCursor /\ [][NextCursor]_vars

InitSpecIdRange == IdleSanitize /\ IdleOpen /\ IdlePipe /\ IdleNull /\ IdleLoad /\ IdleSignal /\ IdleAccess /\ IdleRun /\ IdleTarget /\ IdleTracker /\ IdleAnalyze /\ IdleDisplay /\ IdleClose /\ IdleExport /\ IdleStaging /\ IdleList /\ IdleCursor /\ InitIdRange /\ IdleEstimate /\ IdleTable /\ IdleFinish
SpecIdRange == InitSpecIdRange /\ [][NextIdRange]_vars

InitSpecEstimate == IdleSanitize /\ IdleOpen /\ IdlePipe /\ IdleNull /\ IdleLoad /\ IdleSignal /\ IdleAccess /\ IdleRun /\ IdleTarget /\ IdleTracker /\ IdleAnalyze /\ IdleDisplay /\ IdleClose /\ IdleExport /\ IdleStaging /\ IdleList /\ IdleCursor /\ IdleIdRange /\ InitEstimate /\ IdleTable /\ IdleFinish
SpecEstimate == InitSpecEstimate /\ [][NextEstimate]_vars

InitSpecTable == IdleSanitize /\ IdleOpen /\ IdlePipe /\ IdleNull /\ IdleLoad /\ IdleSignal /\ IdleAccess /\ IdleRun /\ IdleTarget /\ IdleTracker /\ IdleAnalyze /\ IdleDisplay /\ IdleClose /\ IdleExport /\ IdleStaging /\ IdleList /\ IdleCursor /\ IdleIdRange /\ IdleEstimate /\ InitTable /\ IdleFinish
SpecTable == InitSpecTable /\ [][NextTable]_vars

InitSpecFinish == IdleSanitize /\ IdleOpen /\ IdlePipe /\ IdleNull /\ IdleLoad /\ IdleSignal /\ IdleAccess /\ IdleRun /\ IdleTarget /\ IdleTracker /\ IdleAnalyze /\ IdleDisplay /\ IdleClose /\ IdleExport /\ IdleStaging /\ IdleList /\ IdleCursor /\ IdleIdRange /\ IdleEstimate /\ IdleTable /\ InitFinish
SpecFinish == InitSpecFinish /\ [][NextFinish]_vars

====
